---- MODULE Spec2Model ----
(***************************************************************************)
(* A model of fake_luxury_api: the bearer-token subsystem, the REST        *)
(* surface, the per-vehicle simulator actor and the streaming endpoint.    *)
(* Each part has its own specification (SpecTok, ...) over the module's    *)
(* variables; a specification leaves the variables of the other parts at   *)
(* their initial values.                                                   *)
(***************************************************************************)
EXTENDS Integers, Sequences, FiniteSets, TLC

VARIABLES
    utc,        \* wall clock (Utc::now()), seconds since the epoch
    client,     \* the token pair the client holds (fla_client Client.token)
    root,       \* the first token pair of the chain, minted outside the server
    lastReq,    \* the last authenticated request and its outcome
    pair        \* two requests made at once that differ only in the token presented

tokVars == <<utc, client, root, lastReq, pair>>

VARIABLES
    instant,    \* monotonic clock (Instant::now()), seconds since the server started
    ss,         \* per vehicle: the actor's SimulationState
    data,       \* per vehicle: the actor's VehicleDataState snapshot
    maybe_s_tx, \* per vehicle: is a streaming broadcast sender allocated
    inbox,      \* per vehicle: the command channel (mpsc, capacity 1)
    watcher,    \* per vehicle: the registry's state-watcher task and its receiver
    descriptor, \* per vehicle: the registry's VehicleDefinition
    rest,       \* per REST caller: the request in progress
    conn,       \* per streaming connection: the socket task
    lastIter    \* per vehicle: history of the actor's last loop iteration

simVars == <<instant, ss, data, maybe_s_tx, inbox, watcher, descriptor, rest, conn, lastIter>>

vars == <<tokVars, simVars>>

\* ------------------------------------------------------------------------
\* Bounds of the model
\* ------------------------------------------------------------------------
\* the field lists of the codec have up to MaxFields names
MaxFields == 2

\* the wall clock stops at MaxUtc
MaxUtc == 900

\* the monotonic clock stops at MaxInstant
MaxInstant == 70

\* the step by which time passes when no timer is due earlier
TimeStep == 20
\* the wall clock advances in steps of UtcStep seconds
UtcStep == 300

\* ------------------------------------------------------------------------
\* Results
\* ------------------------------------------------------------------------
None == [some |-> FALSE]
Some(x) == [some |-> TRUE, val |-> x]

Ok(x) == [ok |-> TRUE, val |-> x]
Err(e) == [ok |-> FALSE, err |-> e]

\* the value of a reply that carries nothing: Ok(())
Unit == [unit |-> TRUE]

\* ------------------------------------------------------------------------
\* tokens.rs
\* ------------------------------------------------------------------------
ScopeEnum ==
    {"Openid", "OfflineAccess", "UserData", "VehicleDeviceData", "VehicleCmds",
     "VehicleChargingCmds", "EnergyDeviceData", "EnergyCmds"}

\* impl FromStr for ScopeEnum
ScopeEnum_from_str(s) ==
    CASE s = "openid" -> Ok("Openid")
      [] s = "offline_access" -> Ok("OfflineAccess")
      [] s = "user_data" -> Ok("UserData")
      [] s = "vehicle_device_data" -> Ok("VehicleDeviceData")
      [] s = "vehicle_cmds" -> Ok("VehicleCmds")
      [] s = "vehicle_charging_cmds" -> Ok("VehicleChargingCmds")
      [] s = "energy_device_data" -> Ok("EnergyDeviceData")
      [] s = "energy_cmds" -> Ok("EnergyCmds")
      [] OTHER -> Err("unit")

\* Config.secret of the server, and a key the server does not know
Secret == "mom-said-yes"
OtherKey == "not-the-secret"

\* Token lifetime: Duration::minutes(10), in seconds
TokenLifetime == 600

\* jsonwebtoken::encode(&Header::default(), &claims, &key): a signed JWT is
\* its claims together with the key that signed it
encode(claims, key) == [jwt |-> TRUE, claims |-> claims, key |-> key]

\* a string that is no JWT at all
Garbage == [jwt |-> FALSE, claims |-> [purpose |-> "none", exp |-> 0, scopes |-> {}],
            key |-> "none"]

\* jsonwebtoken::decode(token, &key, &Validation::new(HS256)): the signature
\* must verify under the key and exp must not be in the past
decode(token, key, now) ==
    IF ~token.jwt THEN Err("InvalidToken")
    ELSE IF token.key # key THEN Err("InvalidSignature")
    ELSE IF token.claims.exp < now THEN Err("ExpiredSignature")
    ELSE Ok(token.claims)

\* Token::new
Token_new(secret, scopes, now) ==
    LET expires_at == now + TokenLifetime
        timestamp == expires_at
        access_token == encode([purpose |-> "Access", exp |-> timestamp,
                                scopes |-> scopes], secret)
        refresh_token == encode([purpose |-> "Refresh", exp |-> timestamp,
                                 scopes |-> scopes], secret)
    IN  IF timestamp < 0 THEN Err("TimestampError")
        ELSE Ok([access_token |-> access_token, refresh_token |-> refresh_token,
                 expires_at |-> expires_at])

\* the token the tests hand to the client: renew_at and expires_at are the
\* time it is built, the start of the model's clock
Token_held(token) ==
    [access_token |-> token.access_token, refresh_token |-> token.refresh_token,
     renew_at |-> 0, expires_at |-> 0]

\* a mutant of the client's token: the renewal is an hour before the expiry,
\* or the epoch
Token_from_epoch(token, now) ==
    [access_token |-> token.access_token, refresh_token |-> token.refresh_token,
     renew_at |-> IF now + token.expires_in >= 3600
                  THEN now + token.expires_in - 3600 ELSE 0,
     expires_at |-> now + token.expires_in]

\* impl From<RawToken> for Token of the client (the lifetimes of the model
\* are far from the ones chrono cannot hold)
Token_from(token, now) ==
    LET expires_in == token.expires_in
        renew_in == IF expires_in >= 60 * 60 THEN expires_in - (60 * 60) ELSE 0
    IN  [access_token |-> token.access_token, refresh_token |-> token.refresh_token,
         renew_at |-> now + renew_in, expires_at |-> now + expires_in]

\* a validate_access_token that forgets the purpose check
validate_access_token_nopurpose(token, secret, now) ==
    decode(token, secret, now)

validate_access_token(token, secret, now) ==
    LET d == decode(token, secret, now)
    IN  IF ~d.ok THEN Err("TokenValidationError")
        ELSE IF d.val.purpose # "Access" THEN Err("WrongTokenType")
        ELSE Ok(d.val)

validate_refresh_token(token, secret, now) ==
    LET d == decode(token, secret, now)
    IN  IF ~d.ok THEN Err("TokenValidationError")
        ELSE IF d.val.purpose # "Refresh" THEN Err("WrongTokenType")
        ELSE Ok(d.val)

\* ------------------------------------------------------------------------
\* errors.rs
\* ------------------------------------------------------------------------
ResponseError ==
    {"InvalidCommand", "InvalidField", "TokenExpired", "InternalServerError",
     "NotImplemented", "MissingScopes", "NotFound", "DeviceNotAvailable",
     "DeviceUnexpectedResponse"}

\* impl IntoResponse for ResponseError: the HTTP status and the kind of body
into_response(e) ==
    CASE e = "InvalidCommand" -> [status |-> 400, body |-> "error:invalid_command"]
      [] e = "InvalidField" -> [status |-> 400, body |-> "error:invalid_field"]
      [] e = "TokenExpired" -> [status |-> 401, body |-> ""]
      [] e = "InternalServerError" -> [status |-> 500, body |-> "Internal Server Error"]
      [] e = "NotImplemented" -> [status |-> 501, body |-> "Not Implemented"]
      [] e = "MissingScopes" -> [status |-> 403, body |-> "Unauthorized missing scopes"]
      [] e = "NotFound" -> [status |-> 404, body |-> "Not Found"]
      [] e = "DeviceNotAvailable" -> [status |-> 408, body |-> "Device not available"]
      [] e = "DeviceUnexpectedResponse" ->
            [status |-> 540, body |-> "Device responded with an error"]

\* ------------------------------------------------------------------------
\* api/auth.rs
\* ------------------------------------------------------------------------
\* request.scope.split(' ').map(ScopeEnum::from_str).collect::<Result<HashSet,()>>():
\* the request's scope string is given as the set of its space-separated items
parse_scopes(items) ==
    IF \E s \in items : ~ScopeEnum_from_str(s).ok THEN Err("unit")
    ELSE Ok({ScopeEnum_from_str(s).val : s \in items})

\* a renew_token that grants what was asked for, not the intersection
renew_token_nointersect(request, secret, now, late) ==
    LET v == validate_refresh_token(request.refresh_token, secret, now)
        p == parse_scopes(request.scope)
    IN  IF ~v.ok THEN Err("TokenExpired")
        ELSE IF ~p.ok THEN Err("InternalServerError")
        ELSE LET t == Token_new(secret, p.val, now)
             IN  Ok([access_token |-> t.val.access_token,
                     refresh_token |-> t.val.refresh_token,
                     id_token |-> "zzzz", token_type |-> "xxxx",
                     expires_in |-> (t.val.expires_at - now) - late])

\* a renew_token that mints a token whatever the granted set
renew_token_norequire(request, secret, now, late) ==
    LET v == validate_refresh_token(request.refresh_token, secret, now)
        p == parse_scopes(request.scope)
    IN  IF ~v.ok THEN Err("TokenExpired")
        ELSE IF ~p.ok THEN Err("InternalServerError")
        ELSE LET t == Token_new(secret, p.val \cap v.val.scopes, now)
             IN  Ok([access_token |-> t.val.access_token,
                     refresh_token |-> t.val.refresh_token,
                     id_token |-> "zzzz", token_type |-> "xxxx",
                     expires_in |-> (t.val.expires_at - now) - late])

\* renew_token; `late` is the whole seconds that pass between Token::new's
\* Utc::now() and the one that computes expires_in
renew_token(request, secret, now, late) ==
    LET v == validate_refresh_token(request.refresh_token, secret, now)
        p == parse_scopes(request.scope)
    IN  IF ~v.ok THEN Err("TokenExpired")
        ELSE IF ~p.ok THEN Err("InternalServerError")
        ELSE LET scopes == p.val \cap v.val.scopes
             IN  IF "Openid" \notin scopes THEN Err("NotImplemented")
                 ELSE IF "OfflineAccess" \notin scopes THEN Err("NotImplemented")
                 ELSE LET t == Token_new(secret, scopes, now)
                      IN  IF ~t.ok THEN Err("InternalServerError")
                          ELSE IF (t.val.expires_at - now) - late < 0
                          THEN Err("InternalServerError")
                          ELSE Ok([access_token |-> t.val.access_token,
                                   refresh_token |-> t.val.refresh_token,
                                   id_token |-> "zzzz", token_type |-> "xxxx",
                                   expires_in |-> (t.val.expires_at - now) - late])

\* token_handler: dispatch on grant_type
token_handler(body, secret, now, late) ==
    IF body.grant_type = "refresh_token" THEN renew_token(body, secret, now, late)
    ELSE Err("NotImplemented")

\* a middleware that reports a token of the wrong purpose as a scope problem
access_token_leaky(token, secret, now) ==
    LET v == validate_access_token(token, secret, now)
    IN  IF v.ok THEN Ok(v.val)
        ELSE IF v.err = "WrongTokenType" THEN Err("MissingScopes")
        ELSE Err("TokenExpired")

\* access_token: Ok(claims) stands for next.run(req) with the claims inserted
access_token(token, secret, now) ==
    LET v == validate_access_token(token, secret, now)
    IN  IF v.ok THEN Ok(v.val) ELSE Err("TokenExpired")

\* ------------------------------------------------------------------------
\* api/streaming.rs: the token checks of data:subscribe_oauth
\* ------------------------------------------------------------------------
subscribe_claims(token, secret, now) ==
    LET v == validate_access_token(token, secret, now)
    IN  IF ~v.ok THEN Err("Invalid token")
        ELSE IF "VehicleDeviceData" \notin v.val.scopes THEN Err("Invalid scope")
        ELSE Ok(v.val)

\* ------------------------------------------------------------------------
\* The token specification: a client holding a token pair, refreshing it and
\* presenting tokens to the middleware while the clock advances
\* ------------------------------------------------------------------------
\* impl Serialize for ScopeEnum (rename_all = "snake_case")
ScopeName(s) ==
    CASE s = "Openid" -> "openid"
      [] s = "OfflineAccess" -> "offline_access"
      [] s = "UserData" -> "user_data"
      [] s = "VehicleDeviceData" -> "vehicle_device_data"
      [] s = "VehicleCmds" -> "vehicle_cmds"
      [] s = "VehicleChargingCmds" -> "vehicle_charging_cmds"
      [] s = "EnergyDeviceData" -> "energy_device_data"
      [] s = "EnergyCmds" -> "energy_cmds"

\* the scope string fla_client sends with every refresh
ClientScope ==
    {"openid", "offline_access", "vehicle_device_data", "vehicle_cmds",
     "vehicle_charging_cmds", "energy_device_data", "energy_cmds"}

\* the scope sets tokens are first minted with: all scopes (get_tokens), the
\* set of test_renew_token, a set without OfflineAccess, and VehicleCmds alone
TestScopes == ScopeEnum \ {"VehicleDeviceData"}
InitialScopes ==
    {ScopeEnum, TestScopes, {"Openid", "VehicleDeviceData"}, {"VehicleCmds"}}

\* the items a refresh request's scope string is made of
RequestNames == {"openid", "offline_access", "user_data"}
RequestScopes ==
    ((SUBSET RequestNames) \ {{}})
        \cup {ClientScope, {"openid", "offline_access", "bogus"}, {""}}

\* the same claims signed with a key that is not the server's
forge(token) == encode(token.claims, OtherKey)

\* the tokens a client can present: those of its current pair, those of the
\* pair it started with, forgeries of its current pair, and any string
Presentable ==
    {client.access_token, client.refresh_token,
     root.access_token, root.refresh_token,
     forge(client.access_token), forge(client.refresh_token), Garbage}

NoReq ==
    [endpoint |-> "none", at |-> 0, presented |-> Garbage, scope |-> {},
     before |-> Garbage, res |-> Err("none")]

\* why the server must refuse a token presented where `purpose` is wanted
Why(token, purpose, now) ==
    IF ~token.jwt THEN "malformed"
    ELSE IF token.key # Secret THEN "bad signature"
    ELSE IF token.claims.exp < now THEN "expired"
    ELSE IF token.claims.purpose # purpose THEN "wrong purpose"
    ELSE "valid"

NoOutcome == [why |-> "none", ran |-> FALSE, response |-> [status |-> 0, body |-> ""]]
NoPair == [endpoint |-> "none", a |-> NoOutcome, b |-> NoOutcome]

InitTok ==
    /\ utc = 0
    /\ \E s \in InitialScopes :
          /\ root = [access_token |-> Token_new(Secret, s, 0).val.access_token,
                     refresh_token |-> Token_new(Secret, s, 0).val.refresh_token]
          /\ client = Token_held(root)
    /\ lastReq = NoReq
    /\ pair = NoPair

\* time passes
TickUtc ==
    /\ utc + UtcStep <= MaxUtc
    /\ utc' = utc + UtcStep
    /\ UNCHANGED <<client, root, lastReq, pair, simVars>>

\* POST /oauth2/v3/token {grant_type: refresh_token}; the client keeps the
\* token pair it is answered with (Client::refresh_token)
Refresh ==
    \E tok \in Presentable, scope \in RequestScopes, late \in {0, 1} :
        LET body == [grant_type |-> "refresh_token", refresh_token |-> tok,
                     scope |-> scope]
            res == token_handler(body, Secret, utc, late)
        IN  /\ lastReq' = [endpoint |-> "token", at |-> utc, presented |-> tok,
                           scope |-> scope, before |-> client.refresh_token,
                           res |-> res]
            /\ client' = IF res.ok THEN Token_from(res.val, utc) ELSE client
            /\ UNCHANGED <<utc, root, pair, simVars>>

\* POST /oauth2/v3/token with one of the other grant types
OtherGrant ==
    \E g \in {"authorization_code", "client_credentials"} :
        LET body == [grant_type |-> g, refresh_token |-> Garbage, scope |-> {}]
            res == token_handler(body, Secret, utc, 0)
        IN  /\ lastReq' = [endpoint |-> g, at |-> utc, presented |-> Garbage,
                           scope |-> {}, before |-> client.refresh_token, res |-> res]
            /\ UNCHANGED <<utc, client, root, pair, simVars>>

\* a request to the owner API reaches the middleware with a bearer token
RestAuth ==
    \E tok \in Presentable :
        LET res == access_token(tok, Secret, utc)
        IN  /\ lastReq' = [endpoint |-> "rest", at |-> utc, presented |-> tok,
                           scope |-> {}, before |-> client.refresh_token, res |-> res]
            /\ UNCHANGED <<utc, client, root, pair, simVars>>

\* a data:subscribe_oauth reaches the token checks of the streaming endpoint
StreamAuth ==
    \E tok \in Presentable :
        LET res == subscribe_claims(tok, Secret, utc)
        IN  /\ lastReq' = [endpoint |-> "stream", at |-> utc, presented |-> tok,
                           scope |-> {}, before |-> client.refresh_token, res |-> res]
            /\ UNCHANGED <<utc, client, root, pair, simVars>>

NextTok == TickUtc \/ Refresh \/ OtherGrant \/ RestAuth \/ StreamAuth

\* ------------------------------------------------------------------------
\* The authentication specification: two requests made at the same instant
\* to the same endpoint, which differ only in the token they present
\* ------------------------------------------------------------------------
\* what the client sees of a request to the owner API, and whether the
\* handler behind the middleware ran
rest_outcome(token) ==
    LET m == access_token(token, Secret, utc)
    IN  [why |-> Why(token, "Access", utc),
         ran |-> m.ok,
         response |-> IF m.ok THEN [status |-> 200, body |-> "handler"]
                      ELSE into_response(m.err)]

\* what the client sees of a refresh request, and whether a token was minted
token_outcome(token, scope) ==
    LET r == token_handler([grant_type |-> "refresh_token", refresh_token |-> token,
                            scope |-> scope], Secret, utc, 0)
    IN  [why |-> Why(token, "Refresh", utc),
         ran |-> r.ok,
         response |-> IF r.ok THEN [status |-> 200, body |-> "token"]
                      ELSE into_response(r.err)]

RestPair ==
    \E a \in Presentable, b \in Presentable :
        /\ pair' = [endpoint |-> "rest", a |-> rest_outcome(a), b |-> rest_outcome(b)]
        /\ UNCHANGED <<utc, client, root, lastReq, simVars>>

RefreshPair ==
    \E a \in Presentable, b \in Presentable, scope \in RequestScopes :
        /\ pair' = [endpoint |-> "token", a |-> token_outcome(a, scope),
                    b |-> token_outcome(b, scope)]
        /\ UNCHANGED <<utc, client, root, lastReq, simVars>>

\* Client::refresh_token: the client presents its refresh token with its fixed
\* scope string and keeps the pair it is answered with
ClientRefresh ==
    LET body == [grant_type |-> "refresh_token",
                 refresh_token |-> client.refresh_token, scope |-> ClientScope]
        res == token_handler(body, Secret, utc, 0)
    IN  /\ res.ok
        /\ client' = Token_from(res.val, utc)
        /\ UNCHANGED <<utc, root, lastReq, pair, simVars>>

\* the client is answered by a server with any lifetime of its tokens
ClientToken ==
    \E expires_in \in {0, 59, 599, 3599, 3600, 3601, 28800} :
        LET raw == [access_token |-> client.access_token,
                    refresh_token |-> client.refresh_token,
                    id_token |-> "zzzz", token_type |-> "xxxx",
                    expires_in |-> expires_in]
        IN  /\ lastReq' = [endpoint |-> "raw", at |-> utc,
                           presented |-> client.refresh_token, scope |-> {},
                           before |-> client.refresh_token, res |-> Ok(raw)]
            /\ client' = Token_from(raw, utc)
            /\ UNCHANGED <<utc, root, pair, simVars>>

NextAuth == TickUtc \/ ClientRefresh \/ RestPair \/ RefreshPair

\* ------------------------------------------------------------------------
\* Properties of the token subsystem
\* ------------------------------------------------------------------------
\* the token is one the server minted for refreshing and has not expired
ValidRefresh(t, at) ==
    t.jwt /\ t.key = Secret /\ t.claims.purpose = "Refresh" /\ t.claims.exp >= at

\* the scopes a scope string names
Requested(scope) == {s \in ScopeEnum : ScopeName(s) \in scope}
KnownNames(scope) == \A n \in scope : \E s \in ScopeEnum : ScopeName(s) = n

Granted(req) == Requested(req.scope) \cap req.presented.claims.scopes

\* C1: a refresh with a valid refresh token t and known scope names R whose
\* intersection with scopes(t) holds Openid and OfflineAccess succeeds, and the
\* new access and refresh tokens carry exactly R \cap scopes(t); no refresh
\* yields a scope its refresh token did not hold, so the scopes of a chain of
\* refreshes never exceed the scopes it started with.
Thm_C1_RefreshIntersectsScopes ==
    /\ ( /\ lastReq.endpoint = "token"
         /\ ValidRefresh(lastReq.presented, lastReq.at)
         /\ KnownNames(lastReq.scope)
         /\ {"Openid", "OfflineAccess"} \subseteq Granted(lastReq) )
        => /\ lastReq.res.ok
           /\ lastReq.res.val.access_token.claims.scopes = Granted(lastReq)
           /\ lastReq.res.val.refresh_token.claims.scopes = Granted(lastReq)
    /\ (lastReq.endpoint = "token" /\ lastReq.res.ok)
        => /\ lastReq.res.val.access_token.claims.scopes
                \subseteq lastReq.presented.claims.scopes
           /\ lastReq.res.val.refresh_token.claims.scopes
                \subseteq lastReq.presented.claims.scopes
    /\ client.access_token.claims.scopes \subseteq root.refresh_token.claims.scopes
    /\ client.refresh_token.claims.scopes \subseteq root.refresh_token.claims.scopes

\* the refresh of test_renew_token: UserData is held but not requested,
\* VehicleDeviceData is requested but not held
Wit_C1_TestRenewToken ==
    /\ lastReq.endpoint = "token"
    /\ ValidRefresh(lastReq.presented, lastReq.at)
    /\ lastReq.presented.claims.scopes = TestScopes
    /\ lastReq.scope = ClientScope
    /\ lastReq.res.ok
    /\ client.access_token.claims.scopes = TestScopes \ {"UserData"}

\* C2: of every token pair minted by Token::new, validate_access_token
\* rejects the refresh token and validate_refresh_token rejects the access
\* token, and each accepts the unexpired token of its own purpose; a REST
\* request or a streaming subscribe presenting a refresh token is not
\* authorised, and a refresh presenting an access token mints nothing.
Thm_C2_PurposeSeparation ==
    /\ ~validate_access_token(client.refresh_token, Secret, utc).ok
    /\ ~validate_refresh_token(client.access_token, Secret, utc).ok
    /\ client.access_token.claims.exp >= utc
        => /\ validate_access_token(client.access_token, Secret, utc).ok
           /\ validate_refresh_token(client.refresh_token, Secret, utc).ok
    /\ (lastReq.endpoint \in {"rest", "stream"}
            /\ lastReq.presented.claims.purpose = "Refresh")
        => ~lastReq.res.ok
    /\ (lastReq.endpoint = "token" /\ lastReq.presented.claims.purpose = "Access")
        => (~lastReq.res.ok /\ client.refresh_token = lastReq.before)

\* an unexpired refresh token of a pair that a refresh minted is presented to
\* the streaming endpoint
Wit_C2_RefreshTokenAtStream ==
    /\ lastReq.endpoint = "stream"
    /\ ValidRefresh(lastReq.presented, lastReq.at)
    /\ lastReq.presented = client.refresh_token
    /\ [access_token |-> client.access_token,
        refresh_token |-> client.refresh_token] # root
    /\ ~lastReq.res.ok

\* C3: a refresh with a valid refresh token whose granted set (requested
\* \cap held) lacks Openid or OfflineAccess fails with an error and mints no
\* token.
Thm_C3_RefreshRequiresOpenidOffline ==
    ( /\ lastReq.endpoint = "token"
      /\ ValidRefresh(lastReq.presented, lastReq.at)
      /\ ~({"Openid", "OfflineAccess"} \subseteq Granted(lastReq)) )
    => /\ ~lastReq.res.ok
       /\ lastReq.res.err \in ResponseError
       /\ client.refresh_token = lastReq.before

\* Openid is granted and OfflineAccess is not
Wit_C3_NoOfflineAccess ==
    /\ lastReq.endpoint = "token"
    /\ ValidRefresh(lastReq.presented, lastReq.at)
    /\ "Openid" \in Granted(lastReq)
    /\ "OfflineAccess" \notin Granted(lastReq)
    /\ lastReq.res = Err("NotImplemented")

\* C4: two requests to the owner API, or to the refresh endpoint, that differ
\* only in why their token is invalid get the same response, TokenExpired
\* (401 with an empty body), and neither runs the handler or mints a token.
Thm_C4_RefusalsIndistinguishable ==
    (pair.endpoint # "none" /\ pair.a.why # "valid" /\ pair.b.why # "valid")
    => /\ pair.a.response = pair.b.response
       /\ pair.a.response = [status |-> 401, body |-> ""]
       /\ ~pair.a.ran /\ ~pair.b.ran

\* an expired token and a token of the wrong purpose at the middleware
Wit_C4_ExpiredAndWrongPurpose ==
    /\ pair.endpoint = "rest"
    /\ pair.a.why = "expired"
    /\ pair.b.why = "wrong purpose"

\* ------------------------------------------------------------------------
\* The vehicle simulator: state, conversions and timed updates
\* ------------------------------------------------------------------------
\* the seeded registry; one vehicle of the seed data is simulated
get_vehicles == {[id |-> 123456789, vehicle_id |-> 123456789, state |-> "online"]}

VehicleIds == {v.id : v \in get_vehicles}

VehicleDefinition(id) == CHOOSE v \in get_vehicles : v.id = id

SimulationStateEnum == {"Driving", "Charging", "Idle", "IdleNoSleep", "Sleeping"}

is_asleep(s) == s.tag = "Sleeping"

is_driving(s) == s.tag = "Driving"

\* the drive is seeded from the snapshot: start instant, battery level, 60 mph
SimulationDriveState_from(d, at) ==
    [time |-> at, battery_level |-> d.charge_state.battery_level,
     heading |-> d.drive_state.heading, speed |-> 60]

SimulationChargeState_from(d, at) ==
    [time |-> at, battery_level |-> d.charge_state.battery_level]

drive(s, d, at) ==
    [tag |-> "Driving",
     state |-> IF s.tag = "Driving" THEN s.state ELSE SimulationDriveState_from(d, at),
     update_time |-> at + 1]

\* a mutant of charge: the next tick is due a second later
charge_soon(s, d, at) ==
    [tag |-> "Charging",
     state |-> IF s.tag = "Charging" THEN s.state ELSE SimulationChargeState_from(d, at),
     update_time |-> at + 1]

charge(s, d, at) ==
    [tag |-> "Charging",
     state |-> IF s.tag = "Charging" THEN s.state ELSE SimulationChargeState_from(d, at),
     update_time |-> at + 10]

idle(at) == [tag |-> "Idle", sleep_time |-> at + 60]

IdleNoSleep == [tag |-> "IdleNoSleep"]

sleeping == [tag |-> "Sleeping", wake_up_time |-> None]

\* a mutant of wake_up: the wake-up is always rescheduled
wake_up_reschedule(s, at) ==
    [tag |-> "Sleeping", wake_up_time |-> Some(at + 60)]

\* a mutant of wake_up: the vehicle is awake at once
wake_up_at_once(s, at) == idle(at)

wake_up(s, at) ==
    IF s.tag = "Sleeping" /\ s.wake_up_time.some
    THEN s
    ELSE [tag |-> "Sleeping", wake_up_time |-> Some(at + 60)]

\* a mutant of update_sleep_time: the deadline stays as it was set on entry
update_sleep_time_fixed(s, at) == s

update_sleep_time(s, at) ==
    IF s.tag = "Idle" THEN [tag |-> "Idle", sleep_time |-> at + 60] ELSE s

SimulationStateEnum_from(s) == s.tag

\* a mutant of the mapping: every state is shown as online
VehicleStateEnum_from_online(sse) == "online"

\* a mutant of the mapping: the two online states are exchanged
VehicleStateEnum_from_inverted(sse) == IF sse = "Sleeping" THEN "online" ELSE "offline"

VehicleStateEnum_from(sse) == IF sse = "Sleeping" THEN "offline" ELSE "online"

\* the snapshot the actor starts with; the sub-records keep the fields the
\* simulation changes, the four static sub-records are kept whole
get_vehicle_data(vehicle, timestamp) ==
    [id |-> vehicle.id,
     vehicle_id |-> vehicle.vehicle_id,
     state |-> vehicle.state,
     charge_state |-> [battery_level |-> 42, battery_range |-> 84,
                       charge_amps |-> 48, charging_state |-> "Disconnected"],
     climate_state |-> [climate_keeper_mode |-> "off"],
     drive_state |-> [heading |-> 0, latitude |-> Some("position"),
                      longitude |-> Some("position"), power |-> Some(0),
                      shift_state |-> None, speed |-> Some(0),
                      timestamp |-> timestamp],
     gui_settings |-> [gui_distance_units |-> "mi/hr"],
     vehicle_config |-> [car_type |-> "model3"],
     vehicle_state |-> [odometer |-> 0],
     elevation |-> 0]

StreamingData_from(d) ==
    [id |-> d.vehicle_id,
     time |-> d.drive_state.timestamp,
     speed |-> d.drive_state.speed,
     odometer |-> Some(d.vehicle_state.odometer),
     soc |-> Some(d.charge_state.battery_level),
     elevation |-> Some(d.elevation),
     est_heading |-> Some(d.drive_state.heading),
     est_lat |-> d.drive_state.latitude,
     est_lng |-> d.drive_state.longitude,
     power |-> d.drive_state.power,
     shift_state |-> d.drive_state.shift_state,
     range |-> Some(d.charge_state.battery_range),
     est_range |-> Some(d.charge_state.battery_range),
     heading |-> Some(d.drive_state.heading)]

\* a mutant of the conversion: the drive state is left out of the reply
VehicleData_from_partial(d) ==
    [id |-> d.id, vehicle_id |-> d.vehicle_id, state |-> d.state,
     charge_state |-> Some(d.charge_state),
     climate_state |-> Some(d.climate_state),
     drive_state |-> None,
     gui_settings |-> Some(d.gui_settings),
     vehicle_config |-> Some(d.vehicle_config),
     vehicle_state |-> Some(d.vehicle_state)]

VehicleData_from(d) ==
    [id |-> d.id, vehicle_id |-> d.vehicle_id, state |-> d.state,
     charge_state |-> Some(d.charge_state),
     climate_state |-> Some(d.climate_state),
     drive_state |-> Some(d.drive_state),
     gui_settings |-> Some(d.gui_settings),
     vehicle_config |-> Some(d.vehicle_config),
     vehicle_state |-> Some(d.vehicle_state)]

\* f64 -> u8 of a battery level held as num/den percent: clamped to 0..100
\* and truncated
Level(num, den) ==
    IF num <= 0 THEN 0
    ELSE IF num >= 100 * den THEN 100
    ELSE num \div den

\* a mutant of the driving tick: an empty battery does not end the drive
get_updated_drive_state_endless(d, s, state, at, timestamp) ==
    LET duration == at - state.time
        distance == duration * 268224
        battery_level == state.battery_level * 10000000 - distance
        finished_driving == battery_level <= 0
        level == Level(battery_level, 10000000)
    IN  << [heading |-> 0, latitude |-> Some("position"),
            longitude |-> Some("position"), power |-> Some(500),
            shift_state |-> Some([variant |-> "Drive", text |-> << >>]),
            speed |-> Some(state.speed),
            timestamp |-> timestamp],
           0,
           [d.charge_state EXCEPT !.battery_level = level,
                                  !.battery_range = level * 2],
           drive(s, d, at) >>

\* one second of driving at 60 mph covers 0.0268224 km, and a km costs one
\* percent of battery; the result is <<drive_state, elevation, charge_state, ss>>
get_updated_drive_state(d, s, state, at, timestamp) ==
    LET duration == at - state.time
        distance == duration * 268224
        battery_level == state.battery_level * 10000000 - distance
        finished_driving == battery_level <= 0
        level == Level(battery_level, 10000000)
    IN  << [heading |-> 0, latitude |-> Some("position"),
            longitude |-> Some("position"), power |-> Some(500),
            shift_state |-> Some([variant |-> "Drive", text |-> << >>]),
            speed |-> Some(state.speed),
            timestamp |-> timestamp],
           0,
           [d.charge_state EXCEPT !.battery_level = level,
                                  !.battery_range = level * 2],
           IF finished_driving THEN idle(at) ELSE drive(s, d, at) >>

\* charging adds ten percent a minute, a sixth of a percent a second; the
\* result is <<charge_state, ss>>
get_updated_charge_state(d, s, state, at, timestamp) ==
    LET duration == at - state.time
        battery_level == state.battery_level * 6 + duration
        finished_charging == battery_level >= 100 * 6
        level == Level(battery_level, 6)
    IN  << [battery_level |-> level, battery_range |-> level * 2,
            charge_amps |-> 48, charging_state |-> "Charging"],
           IF finished_charging THEN idle(at) ELSE charge(s, d, at) >>

\* ------------------------------------------------------------------------
\* Channels: broadcast receivers of capacity 1, the command channel
\* ------------------------------------------------------------------------
\* a receiver that has seen nothing yet
Receiver == [buf |-> None, lagged |-> FALSE, closed |-> FALSE]

\* Sender::send as one receiver sees it: an unread value is overwritten and
\* the receiver is marked as lagging
broadcast_send(rx, value) ==
    IF rx.closed THEN rx
    ELSE [rx EXCEPT !.buf = Some(value), !.lagged = rx.buf.some]

\* the sender is dropped
broadcast_drop(rx) == [rx EXCEPT !.closed = TRUE]

\* Receiver::recv when it is ready: <<result, receiver afterwards>>
broadcast_recv(rx) ==
    IF rx.lagged THEN << Err("Lagged"), [rx EXCEPT !.lagged = FALSE] >>
    ELSE IF rx.buf.some THEN << Ok(rx.buf.val), [rx EXCEPT !.buf = None] >>
    ELSE << Err("Closed"), rx >>

recv_ready(rx) == rx.lagged \/ rx.buf.some \/ rx.closed

\* the command channel holds one command
InboxCapacity == 1

\* CommandSender's wait for the reply gives up after TIMEOUT seconds
TIMEOUT == 10

RestCallers == {"r1"}

Conns == {"ws1"}

\* the guid a vehicle streams under
Guid(v) == VehicleDefinition(v).vehicle_id

\* apply F to every streaming receiver of vehicle v that a connection holds:
\* those of its subscriptions and the one in a reply it has not taken yet
OnReceivers(cn, v, F(_)) ==
    [cn EXCEPT
        !.subs = [g \in DOMAIN cn.subs |->
                    IF g = Guid(v) THEN [cn.subs[g] EXCEPT !.rx = F(@)]
                    ELSE cn.subs[g]],
        !.reply = IF cn.reply.some /\ cn.reply.val.ok /\ cn.req.vehicle = v
                  THEN Some(Ok(F(cn.reply.val.val)))
                  ELSE @]

\* a mutant of the reply: it never reaches the caller
Deliver_lost(callers, c, v, response) == callers

\* the oneshot reply reaches a caller only while it waits for it
Deliver(callers, c, v, response) ==
    IF c \in DOMAIN callers /\ callers[c].pc = "wait" /\ callers[c].req.vehicle = v
    THEN [callers EXCEPT ![c].reply = Some(response)]
    ELSE callers

NoIteration ==
    [branch |-> "none", reply |-> None, published |-> None, simulated |-> "none"]

NoRequest ==
    [endpoint |-> "none", id |-> 0, vehicle |-> 0, cmd |-> "none", arg |-> "none",
     query |-> None]

\* a REST caller between two requests
NoCall ==
    [pc |-> "idle", req |-> NoRequest, why |-> "none", scoped |-> FALSE,
     reply |-> None, sent_at |-> 0, response |-> None, enqueued |-> FALSE,
     read |-> FALSE, called_at |-> 0]

NoSubscriptions == [g \in {} |-> [fields |-> {}, rx |-> Receiver]]

\* history of a connection: per guid, the time cell of the last data:update sent
NoTimes == [g \in {} |-> 0]

\* the server starts: the clocks, the token pair of the test client
InitClient ==
    /\ utc = 0
    /\ root = [access_token |-> Token_new(Secret, ScopeEnum, 0).val.access_token,
               refresh_token |-> Token_new(Secret, ScopeEnum, 0).val.refresh_token]
    /\ client = Token_held(root)
    /\ lastReq = NoReq
    /\ pair = NoPair

InitSim ==
    /\ instant = 0
    /\ ss = [v \in VehicleIds |-> idle(0)]
    /\ data = [v \in VehicleIds |-> get_vehicle_data(VehicleDefinition(v), utc)]
    /\ maybe_s_tx = [v \in VehicleIds |-> FALSE]
    /\ inbox = [v \in VehicleIds |-> << >>]
    /\ watcher = [v \in VehicleIds |-> [pc |-> "start", sent_at |-> 0, rx |-> Receiver]]
    /\ descriptor = [v \in VehicleIds |-> VehicleDefinition(v)]
    /\ rest = [c \in RestCallers |-> NoCall]
    /\ conn = [k \in Conns |->
                 [pc |-> "new", req |-> NoRequest, reply |-> None, sent_at |-> 0,
                  subs |-> NoSubscriptions, frame |-> None, granted |-> {},
                  last |-> NoTimes,
                  attempt |-> None]]
    /\ lastIter = [v \in VehicleIds |-> NoIteration]

Init == InitClient /\ InitSim

\* ------------------------------------------------------------------------
\* The simulator actor: one action per branch of its select!, each followed
\* by the rest of the loop body
\* ------------------------------------------------------------------------
\* a mutant of the loop tail: a state change clears no field of the snapshot
EndOfIteration_uncleared(v, rec, new_ss0, data1, s_tx0, s_tx1, rest1, conn1, watcher1) ==
    LET old_sse == SimulationStateEnum_from(ss[v])
        new_ss == update_sleep_time(new_ss0, instant)
        new_sse == SimulationStateEnum_from(new_ss)
        data2 == [data1 EXCEPT !.state = VehicleStateEnum_from(new_sse)]
        data3 == data2
        keep == s_tx1 /\ ~is_asleep(new_ss) /\ is_driving(new_ss)
    IN  /\ ss' = [ss EXCEPT ![v] = new_ss]
        /\ data' = [data EXCEPT ![v] = data3]
        /\ maybe_s_tx' = [maybe_s_tx EXCEPT ![v] = keep]
        /\ rest' = rest1
        /\ conn' = IF s_tx0 /\ ~keep
                   THEN [k \in Conns |-> OnReceivers(conn1[k], v, broadcast_drop)]
                   ELSE conn1
        /\ watcher' = [watcher1 EXCEPT ![v].rx =
                          IF watcher1[v].pc = "run" THEN broadcast_send(@, new_sse)
                          ELSE @]
        /\ lastIter' = [lastIter EXCEPT ![v] =
                          [branch |-> rec.branch, reply |-> rec.reply,
                           published |-> rec.published,
                           simulated |-> IF rec.branch = "Simulate" THEN rec.arg
                                         ELSE lastIter[v].simulated]]

\* the loop body after the select!: the sleep deadline, the snapshot's state,
\* the state broadcast, the streaming sender, the fields a state change clears
EndOfIteration(v, rec, new_ss0, data1, s_tx0, s_tx1, rest1, conn1, watcher1) ==
    LET old_sse == SimulationStateEnum_from(ss[v])
        new_ss == update_sleep_time(new_ss0, instant)
        new_sse == SimulationStateEnum_from(new_ss)
        data2 == [data1 EXCEPT !.state = VehicleStateEnum_from(new_sse)]
        data3 == IF old_sse = new_sse THEN data2
                 ELSE IF old_sse = "Driving"
                 THEN [data2 EXCEPT !.drive_state.speed = None,
                                    !.drive_state.shift_state = None,
                                    !.drive_state.power = None]
                 ELSE IF old_sse = "Charging"
                 THEN [data2 EXCEPT !.charge_state.charging_state = "Disconnected",
                                    !.charge_state.charge_amps = 0]
                 ELSE data2
        keep == s_tx1 /\ ~is_asleep(new_ss) /\ is_driving(new_ss)
    IN  /\ ss' = [ss EXCEPT ![v] = new_ss]
        /\ data' = [data EXCEPT ![v] = data3]
        /\ maybe_s_tx' = [maybe_s_tx EXCEPT ![v] = keep]
        /\ rest' = rest1
        /\ conn' = IF s_tx0 /\ ~keep
                   THEN [k \in Conns |-> OnReceivers(conn1[k], v, broadcast_drop)]
                   ELSE conn1
        /\ watcher' = [watcher1 EXCEPT ![v].rx =
                          IF watcher1[v].pc = "run" THEN broadcast_send(@, new_sse)
                          ELSE @]
        /\ lastIter' = [lastIter EXCEPT ![v] =
                          [branch |-> rec.branch, reply |-> rec.reply,
                           published |-> rec.published,
                           simulated |-> IF rec.branch = "Simulate" THEN rec.arg
                                         ELSE lastIter[v].simulated]]

Timer(branch) ==
    [branch |-> branch, arg |-> "none", reply |-> None, published |-> None]

\* Some(state) = maybe_update_drive(&ss)
UpdateDrive(v) ==
    /\ ss[v].tag = "Driving"
    /\ instant >= ss[v].update_time
    /\ LET r == get_updated_drive_state(data[v], ss[v], ss[v].state, instant, utc)
           data1 == [data[v] EXCEPT !.drive_state = r[1], !.elevation = r[2],
                                    !.charge_state = r[3]]
           streaming_data == StreamingData_from(data1)
           send(rx) == broadcast_send(rx, streaming_data)
           conn1 == IF maybe_s_tx[v]
                    THEN [k \in Conns |-> OnReceivers(conn[k], v, send)]
                    ELSE conn
           stopped == (IF data1.drive_state.speed.some
                       THEN data1.drive_state.speed.val ELSE 0) = 0
       IN  EndOfIteration(v,
               [Timer("drive") EXCEPT !.published =
                   IF maybe_s_tx[v] THEN Some(streaming_data) ELSE None],
               r[4], data1, maybe_s_tx[v], maybe_s_tx[v] /\ ~stopped,
               rest, conn1, watcher)
    /\ UNCHANGED <<instant, inbox, descriptor, tokVars>>

\* Some(state) = maybe_update_charge(&ss)
UpdateCharge(v) ==
    /\ ss[v].tag = "Charging"
    /\ instant >= ss[v].update_time
    /\ LET r == get_updated_charge_state(data[v], ss[v], ss[v].state, instant, utc)
           data1 == [data[v] EXCEPT !.charge_state = r[1]]
       IN  EndOfIteration(v, Timer("charge"), r[2], data1, maybe_s_tx[v],
                          maybe_s_tx[v], rest, conn, watcher)
    /\ UNCHANGED <<instant, inbox, descriptor, tokVars>>

\* Some(()) = maybe_sleep(&ss)
Sleep(v) ==
    /\ ss[v].tag = "Idle"
    /\ instant >= ss[v].sleep_time
    /\ EndOfIteration(v, Timer("sleep"), sleeping, data[v], maybe_s_tx[v],
                      maybe_s_tx[v], rest, conn, watcher)
    /\ UNCHANGED <<instant, inbox, descriptor, tokVars>>

\* a mutant of the wake timer: the vehicle wakes into the state that never sleeps
WakeUp_never_sleeping(v) ==
    /\ ss[v].tag = "Sleeping"
    /\ ss[v].wake_up_time.some
    /\ instant >= ss[v].wake_up_time.val
    /\ EndOfIteration(v, Timer("wake"), IdleNoSleep, data[v], maybe_s_tx[v],
                      maybe_s_tx[v], rest, conn, watcher)
    /\ UNCHANGED <<instant, inbox, descriptor, tokVars>>

\* Some(()) = maybe_wake_up(&ss)
WakeUp(v) ==
    /\ ss[v].tag = "Sleeping"
    /\ ss[v].wake_up_time.some
    /\ instant >= ss[v].wake_up_time.val
    /\ EndOfIteration(v, Timer("wake"), idle(instant), data[v], maybe_s_tx[v],
                      maybe_s_tx[v], rest, conn, watcher)
    /\ UNCHANGED <<instant, inbox, descriptor, tokVars>>

\* a mutant of simulate: the requested state is not entered
simulate_ignored(s, d, sse, at) == s

\* Command::Simulate: the state the actor moves to
simulate(s, d, sse, at) ==
    CASE sse = "Driving" -> drive(s, d, at)
      [] sse = "Charging" -> charge(s, d, at)
      [] sse = "Idle" -> idle(at)
      [] sse = "IdleNoSleep" -> IdleNoSleep
      [] sse = "Sleeping" -> sleeping

\* a mutant of the arms: every command allocates the streaming broadcast
Handle_allocating(v, m) ==
    [ss |-> IF m.cmd = "Simulate" THEN simulate(ss[v], data[v], m.arg, instant)
            ELSE IF m.cmd = "WakeUp" /\ is_asleep(ss[v]) THEN wake_up(ss[v], instant)
            ELSE ss[v],
     reply |-> IF m.cmd = "Subscribe" THEN Ok(Receiver) ELSE Ok(Unit),
     s_tx |-> TRUE]

\* what the arm of a command does to the actor's state and what it replies
Handle(v, m) ==
    CASE m.cmd = "WakeUp" ->
            IF is_asleep(ss[v])
            THEN [ss |-> wake_up(ss[v], instant), reply |-> Err("DeviceNotAvailable"),
                  s_tx |-> maybe_s_tx[v]]
            ELSE [ss |-> ss[v], reply |-> Ok(Unit), s_tx |-> maybe_s_tx[v]]
      [] m.cmd = "GetVehicleData" ->
            IF is_asleep(ss[v])
            THEN [ss |-> ss[v], reply |-> Err("DeviceNotAvailable"),
                  s_tx |-> maybe_s_tx[v]]
            ELSE [ss |-> ss[v], reply |-> Ok(VehicleData_from(data[v])),
                  s_tx |-> maybe_s_tx[v]]
      [] m.cmd = "Subscribe" ->
            IF is_asleep(ss[v])
            THEN [ss |-> ss[v], reply |-> Err("vehicle_disconnected"),
                  s_tx |-> maybe_s_tx[v]]
            ELSE [ss |-> ss[v], reply |-> Ok(Receiver), s_tx |-> TRUE]
      [] m.cmd = "Simulate" ->
            [ss |-> simulate(ss[v], data[v], m.arg, instant), reply |-> Ok(Unit),
             s_tx |-> maybe_s_tx[v]]
      [] m.cmd = "WatchState" ->
            [ss |-> ss[v], reply |-> Ok(Receiver), s_tx |-> maybe_s_tx[v]]

\* cmd = c_rx.recv()
Serve(v) ==
    /\ inbox[v] # << >>
    /\ LET m == Head(inbox[v])
           h == Handle(v, m)
           watcher1 == IF m.cmd = "WatchState" /\ watcher[v].pc = "wait"
                       THEN [watcher EXCEPT ![v].pc = "run", ![v].rx = Receiver]
                       ELSE watcher
       IN  EndOfIteration(v,
               [branch |-> m.cmd, arg |-> m.arg, reply |-> Some(h.reply),
                published |-> None],
               h.ss, data[v], h.s_tx, h.s_tx,
               Deliver(rest, m.from, v, h.reply),
               Deliver(conn, m.from, v, h.reply),
               watcher1)
    /\ inbox' = [inbox EXCEPT ![v] = Tail(@)]
    /\ UNCHANGED <<instant, descriptor, tokVars>>

\* ------------------------------------------------------------------------
\* Time, and the registry's watcher of the state broadcast
\* ------------------------------------------------------------------------
\* the deadlines of the actors' timers
Deadlines ==
    {ss[v].update_time : v \in {w \in VehicleIds : ss[w].tag \in {"Driving", "Charging"}}}
      \cup {ss[v].sleep_time : v \in {w \in VehicleIds : ss[w].tag = "Idle"}}
      \cup {ss[v].wake_up_time.val :
              v \in {w \in VehicleIds : ss[w].tag = "Sleeping" /\ ss[w].wake_up_time.some}}

\* both clocks advance by TimeStep, the granularity at which the model looks
\* at them, while the actors keep up: a timer fires at the first such instant
\* at or after its deadline, and a command is sent when the inbox has room
\* and served at the instant it is sent
Advance ==
    LET t == instant + TimeStep
    IN  /\ t <= MaxInstant
        /\ \A d \in Deadlines : d > instant
        /\ \A v \in VehicleIds : inbox[v] = << >>
        /\ \A c \in RestCallers : rest[c].pc # "send"
        /\ \A k \in Conns : conn[k].pc # "send"
        /\ instant' = t
        /\ utc' = utc + (t - instant)
        /\ UNCHANGED <<client, root, lastReq, pair, ss, data, maybe_s_tx, inbox,
                       watcher, descriptor, rest, conn, lastIter>>

\* both clocks advance by TimeStep while the actors are not scheduled
Stall ==
    LET t == instant + TimeStep
    IN  /\ t <= MaxInstant
        /\ \E v \in VehicleIds : inbox[v] # << >>
        /\ instant' = t
        /\ utc' = utc + (t - instant)
        /\ UNCHANGED <<client, root, lastReq, pair, ss, data, maybe_s_tx, inbox,
                       watcher, descriptor, rest, conn, lastIter>>

\* the watcher asks the actor for a receiver of the state broadcast
WatcherStart(v) ==
    /\ watcher[v].pc = "start"
    /\ Len(inbox[v]) < InboxCapacity
    /\ inbox' = [inbox EXCEPT ![v] =
                   Append(@, [cmd |-> "WatchState", arg |-> "none", from |-> "watcher"])]
    /\ watcher' = [watcher EXCEPT ![v].pc = "wait", ![v].sent_at = instant]
    /\ UNCHANGED <<instant, ss, data, maybe_s_tx, descriptor, rest, conn, lastIter,
                   tokVars>>

\* CommandSender::watch_state gives up
WatcherTimeout(v) ==
    /\ watcher[v].pc = "wait"
    /\ instant >= watcher[v].sent_at + TIMEOUT
    /\ watcher' = [watcher EXCEPT ![v].pc = "failed"]
    /\ UNCHANGED <<instant, ss, data, maybe_s_tx, inbox, descriptor, rest, conn,
                   lastIter, tokVars>>

\* the watcher copies a state it receives into the descriptor
WatcherRecv(v) ==
    /\ watcher[v].pc = "run"
    /\ recv_ready(watcher[v].rx)
    /\ LET r == broadcast_recv(watcher[v].rx)
       IN  /\ watcher' = [watcher EXCEPT ![v].rx = r[2]]
           /\ descriptor' = IF r[1].ok
                            THEN [descriptor EXCEPT ![v].state =
                                      VehicleStateEnum_from(r[1].val)]
                            ELSE descriptor
    /\ UNCHANGED <<instant, ss, data, maybe_s_tx, inbox, rest, conn, lastIter,
                   tokVars>>

\* ------------------------------------------------------------------------
\* The owner API: the handlers up to their first await on the simulator
\* ------------------------------------------------------------------------
\* the endpoint names of the query parameter
VehicleDataEndpoint ==
    {"charge_state", "climate_state", "closures_state", "drive_state", "gui_settings",
     "location_data", "vehicle_config", "vehicle_state", "vehicle_data_combo"}

\* str::split on a string held as its words and separator characters: the
\* items between the separators, empty ones included
RECURSIVE str_split(_, _)
str_split(s, sep) ==
    IF \A i \in 1..Len(s) : s[i] # sep THEN <<s>>
    ELSE LET i == CHOOSE j \in 1..Len(s) :
                     s[j] = sep /\ \A h \in 1..(j - 1) : s[h] # sep
         IN  <<SubSeq(s, 1, i - 1)>> \o str_split(SubSeq(s, i + 1, Len(s)), sep)

\* VehicleDataEndpoint::from_str: an item is an endpoint when it is exactly
\* one of the nine names
VehicleDataEndpoint_from_str(item) ==
    IF Len(item) = 1 /\ item[1] \in VehicleDataEndpoint THEN Ok(item[1])
    ELSE Err("Invalid endpoint")

\* a mutant of the parsing: the items are separated by commas
endpoints_of_commas(query) ==
    IF ~query.some THEN Ok({})
    ELSE LET items == str_split(query.val, ",")
             parsed == [i \in 1..Len(items) |-> VehicleDataEndpoint_from_str(items[i])]
         IN  IF \E i \in 1..Len(items) : ~parsed[i].ok THEN Err("InvalidCommand")
             ELSE Ok({parsed[i].val : i \in 1..Len(items)})

\* the set of endpoints of the query parameter: empty when it is absent,
\* InvalidCommand when an item is not an endpoint
endpoints_of(query) ==
    IF ~query.some THEN Ok({})
    ELSE LET items == str_split(query.val, ";")
             parsed == [i \in 1..Len(items) |-> VehicleDataEndpoint_from_str(items[i])]
         IN  IF \E i \in 1..Len(items) : ~parsed[i].ok THEN Err("InvalidCommand")
             ELSE Ok({parsed[i].val : i \in 1..Len(items)})

\* Option::filter
filter(opt, keep) == IF opt.some /\ keep THEN opt ELSE None

\* a mutant of the mask: the position is given with the drive state alone
masked_with_location(d, endpoints) ==
    [d EXCEPT
        !.charge_state = filter(@, "charge_state" \in endpoints),
        !.climate_state = filter(@, "climate_state" \in endpoints),
        !.drive_state = filter(@, "drive_state" \in endpoints),
        !.gui_settings = filter(@, "gui_settings" \in endpoints),
        !.vehicle_config = filter(@, "vehicle_config" \in endpoints),
        !.vehicle_state = filter(@, "vehicle_state" \in endpoints)]

\* the vehicle data the handler answers with: the sub-records the endpoints
\* name, the position only with location_data
masked(d, endpoints) ==
    [d EXCEPT
        !.charge_state = filter(@, "charge_state" \in endpoints),
        !.climate_state = filter(@, "climate_state" \in endpoints),
        !.drive_state =
            IF "drive_state" \in endpoints /\ @.some
            THEN LET location == "location_data" \in endpoints
                 IN  Some([@.val EXCEPT !.latitude = filter(@, location),
                                        !.longitude = filter(@, location)])
            ELSE None,
        !.gui_settings = filter(@, "gui_settings" \in endpoints),
        !.vehicle_config = filter(@, "vehicle_config" \in endpoints),
        !.vehicle_state = filter(@, "vehicle_state" \in endpoints)]

\* vehicle_data_handler after the reply of the simulator
vehicle_data_response(d, query) ==
    LET endpoints == endpoints_of(query)
    IN  IF ~endpoints.ok THEN Err("InvalidCommand") ELSE Ok(masked(d, endpoints.val))

Answer(result, read) == [done |-> TRUE, response |-> result, read |-> read]

Command(v, cmd, arg) == [done |-> FALSE, vehicle |-> v, cmd |-> cmd, arg |-> arg]

\* a string of items joined by a separator, held as its words and separators
RECURSIVE join(_, _)
join(items, sep) ==
    IF Len(items) = 0 THEN << >>
    ELSE IF Len(items) = 1 THEN items[1]
    ELSE items[1] \o <<sep>> \o join(Tail(items), sep)

\* the names of a set, one item each, in the order the client writes them
Items(names) ==
    LET order == <<"charge_state", "climate_state", "closures_state", "drive_state",
                   "gui_settings", "location_data", "vehicle_config", "vehicle_state",
                   "vehicle_data_combo">>
        chosen == SelectSeq(order, LAMBDA e : e \in names)
    IN  [i \in 1..Len(chosen) |-> <<chosen[i]>>]

\* the nine names joined by a separator
AllEndpoints(sep) == join(Items(VehicleDataEndpoint), sep)

vehicles_handler(claims) ==
    IF "VehicleDeviceData" \notin claims.scopes THEN Answer(Err("MissingScopes"), FALSE)
    ELSE Answer(Ok([v \in VehicleIds |-> descriptor[v]]), TRUE)

vehicle_handler(claims, id) ==
    IF "VehicleDeviceData" \notin claims.scopes THEN Answer(Err("MissingScopes"), FALSE)
    ELSE IF id \notin VehicleIds THEN Answer(Err("NotFound"), FALSE)
    ELSE Answer(Ok(descriptor[id]), TRUE)

\* a mutant of vehicle_data_handler: the vehicle is looked up first
vehicle_data_handler_find_first(claims, id) ==
    IF id \notin VehicleIds THEN Answer(Err("NotFound"), FALSE)
    ELSE IF "VehicleDeviceData" \notin claims.scopes
    THEN Answer(Err("MissingScopes"), FALSE)
    ELSE Command(id, "GetVehicleData", "none")

vehicle_data_handler(claims, id) ==
    IF "VehicleDeviceData" \notin claims.scopes THEN Answer(Err("MissingScopes"), FALSE)
    ELSE IF id \notin VehicleIds THEN Answer(Err("NotFound"), FALSE)
    ELSE Command(id, "GetVehicleData", "none")

wake_up_handler(claims, id) ==
    IF "VehicleCmds" \notin claims.scopes THEN Answer(Err("MissingScopes"), FALSE)
    ELSE IF id \notin VehicleIds THEN Answer(Err("NotFound"), FALSE)
    ELSE Command(id, "WakeUp", "none")

simulate_handler(claims, id, state) ==
    IF "VehicleCmds" \notin claims.scopes THEN Answer(Err("MissingScopes"), FALSE)
    ELSE IF id \notin VehicleIds THEN Answer(Err("NotFound"), FALSE)
    ELSE Command(id, "Simulate", state)

Endpoints == {"vehicles", "vehicle", "vehicle_data", "wake_up", "simulate"}

\* the scope the API documents for each route
RequiredScope(endpoint) ==
    IF endpoint \in {"wake_up", "simulate"} THEN "VehicleCmds" ELSE "VehicleDeviceData"

\* the router: the handler behind each route
route(endpoint, claims, id, arg) ==
    CASE endpoint = "vehicles" -> vehicles_handler(claims)
      [] endpoint = "vehicle" -> vehicle_handler(claims, id)
      [] endpoint = "vehicle_data" -> vehicle_data_handler(claims, id)
      [] endpoint = "wake_up" -> wake_up_handler(claims, id)
      [] endpoint = "simulate" -> simulate_handler(claims, id, arg)

\* the ids requests name: the registered ones and one that is not
RequestIds == VehicleIds \cup {404}

\* the bearer tokens requests carry: access tokens of all scopes, of all but
\* VehicleDeviceData, of no command scope, and a refresh token
BearerTokens ==
    {Token_new(Secret, s, 0).val.access_token :
        s \in {ScopeEnum, TestScopes, {"Openid", "VehicleDeviceData"}}}
      \cup {Token_new(Secret, ScopeEnum, 0).val.refresh_token}

\* a request arrives: the middleware, then the handler up to its first await
Request(c, endpoints, tokens, ids, states, queries) ==
    /\ rest[c].pc = "idle"
    /\ \E endpoint \in endpoints, id \in ids, token \in tokens :
       \E arg \in IF endpoint = "simulate" THEN states ELSE {"none"} :
       \E query \in IF endpoint = "vehicle_data" THEN queries ELSE {None} :
          LET auth == access_token(token, Secret, utc)
              h == route(endpoint, auth.val, id, arg)
              req == [endpoint |-> endpoint, id |-> id, vehicle |-> 0,
                      cmd |-> "none", arg |-> "none", query |-> query]
              fresh == [rest[c] EXCEPT !.req = req, !.reply = None,
                                       !.why = Why(token, "Access", utc),
                                       !.scoped = RequiredScope(endpoint)
                                                     \in token.claims.scopes,
                                       !.response = None, !.enqueued = FALSE,
                                       !.read = FALSE]
          IN  rest' = [rest EXCEPT ![c] =
                  IF ~auth.ok
                  THEN [fresh EXCEPT !.pc = "done", !.response = Some(Err(auth.err))]
                  ELSE IF h.done
                  THEN [fresh EXCEPT !.pc = "done", !.response = Some(h.response),
                                     !.read = h.read]
                  ELSE [fresh EXCEPT !.pc = "send", !.req.vehicle = h.vehicle,
                                     !.req.cmd = h.cmd, !.req.arg = h.arg,
                                     !.called_at = instant]]
    /\ UNCHANGED <<instant, ss, data, maybe_s_tx, inbox, watcher, descriptor, conn,
                   lastIter, tokVars>>

\* the access token the owner got with all scopes (get_token_for_all_scopes)
OwnerToken == Token_new(Secret, ScopeEnum, 0).val.access_token

\* a request of any client, with any token, for any id
RestRequest(c) ==
    Request(c, Endpoints, BearerTokens, RequestIds, {"Driving", "Charging", "Sleeping"},
            {None, Some(AllEndpoints(";"))})

\* a request of the vehicle's owner, with the access token of all scopes
OwnerRequest(c) ==
    Request(c, Endpoints, {OwnerToken}, VehicleIds, SimulationStateEnum,
            {None, Some(AllEndpoints(";"))})

\* the query parameters made of endpoint names: every non-empty set of names
\* joined by semicolons as the client joins them, and two with a name twice
\* and in another order
KnownQueries ==
    {Some(join(Items(names), ";")) : names \in (SUBSET VehicleDataEndpoint) \ {{}}}
      \cup {Some(<<"location_data", ";", "drive_state", ";", "drive_state">>),
            Some(<<"vehicle_state", ";", "charge_state", ";", "vehicle_state">>)}

\* query parameters with an item that is not an endpoint name: the empty
\* string, a trailing or doubled separator, an unknown word, a name in
\* capitals, names joined by commas (all nine: the query of test_vehicle_data)
BadQueries ==
    {Some(<< >>), Some(<<"charge_state", ";">>), Some(<<";", "drive_state">>),
     Some(<<"charge_state", ";", ";", "drive_state">>), Some(<<"bogus">>),
     Some(<<"drive_state", ";", "bogus">>), Some(<<"CHARGE_STATE">>),
     Some(<<"charge_state", ",", "drive_state">>), Some(AllEndpoints(","))}

\* a vehicle_data request of the owner with any of these query parameters
MaskRequest(c) ==
    Request(c, {"vehicle_data"}, {OwnerToken}, VehicleIds, {"none"},
            {None} \cup KnownQueries \cup BadQueries)

\* the owner puts the vehicle into a state: a simulate request by a client
\* that does not look at the response
Simulate(v) ==
    /\ Len(inbox[v]) < InboxCapacity
    /\ \E state \in {"Driving", "Idle", "Sleeping"} :
          inbox' = [inbox EXCEPT ![v] =
                      Append(@, [cmd |-> "Simulate", arg |-> state, from |-> "owner"])]
    /\ UNCHANGED <<instant, ss, data, maybe_s_tx, watcher, descriptor, rest, conn,
                   lastIter, tokVars>>

\* the owner sends a command without looking at the response: a simulate
\* request for any state, or a wake_up
OwnerCommand(v) ==
    /\ Len(inbox[v]) < InboxCapacity
    /\ \E m \in {[cmd |-> "Simulate", arg |-> state, from |-> "owner"] :
                    state \in SimulationStateEnum}
                 \cup {[cmd |-> "WakeUp", arg |-> "none", from |-> "owner"]} :
          inbox' = [inbox EXCEPT ![v] = Append(@, m)]
    /\ UNCHANGED <<instant, ss, data, maybe_s_tx, watcher, descriptor, rest, conn,
                   lastIter, tokVars>>

\* self.0.send(command).await: the command enters the inbox when it has room
RestSend(c) ==
    /\ rest[c].pc = "send"
    /\ Len(inbox[rest[c].req.vehicle]) < InboxCapacity
    /\ inbox' = [inbox EXCEPT ![rest[c].req.vehicle] =
                   Append(@, [cmd |-> rest[c].req.cmd, arg |-> rest[c].req.arg,
                              from |-> c])]
    /\ rest' = [rest EXCEPT ![c].pc = "wait", ![c].enqueued = TRUE,
                            ![c].sent_at = instant]
    /\ UNCHANGED <<instant, ss, data, maybe_s_tx, watcher, descriptor, conn,
                   lastIter, tokVars>>

\* a mutant of wake_up_handler: the descriptor is returned on any reply
wake_up_response_on_any(r, d) == Ok(d)

\* wake_up_handler after the reply of the simulator: an error reply is the
\* handler's error, otherwise the descriptor is read and returned
wake_up_response(r, d) == IF ~r.ok THEN Err(r.err) ELSE Ok(d)

\* the reply arrives and the handler runs to its end
RestFinish(c) ==
    /\ rest[c].pc = "wait"
    /\ rest[c].reply.some
    /\ LET r == rest[c].reply.val
           v == rest[c].req.vehicle
           cmd == rest[c].req.cmd
       IN  rest' = [rest EXCEPT
               ![c].pc = "done",
               ![c].reply = None,
               ![c].response =
                   IF cmd = "WakeUp" THEN Some(wake_up_response(r, descriptor[v]))
                   ELSE IF ~r.ok THEN Some(Err(r.err))
                   ELSE IF cmd = "GetVehicleData"
                   THEN Some(vehicle_data_response(r.val, rest[c].req.query))
                   ELSE Some(Ok(Unit)),
               ![c].read = r.ok /\ cmd = "WakeUp",
               ![c].sent_at = 0,
               ![c].called_at = 0]
    /\ UNCHANGED <<instant, ss, data, maybe_s_tx, inbox, watcher, descriptor, conn,
                   lastIter, tokVars>>

\* the response is on its way to the client
RestReturn(c) ==
    /\ rest[c].pc = "done"
    /\ rest' = [rest EXCEPT ![c] = NoCall]
    /\ UNCHANGED <<instant, ss, data, maybe_s_tx, inbox, watcher, descriptor, conn,
                   lastIter, tokVars>>

\* tokio::time::timeout(TIMEOUT, rx) elapses
RestTimeout(c) ==
    /\ rest[c].pc = "wait"
    /\ ~rest[c].reply.some
    /\ instant >= rest[c].sent_at + TIMEOUT
    /\ rest' = [rest EXCEPT ![c].pc = "done", ![c].sent_at = 0, ![c].called_at = 0,
                            ![c].response = Some(Err("DeviceNotAvailable"))]
    /\ UNCHANGED <<instant, ss, data, maybe_s_tx, inbox, watcher, descriptor, conn,
                   lastIter, tokVars>>

\* ------------------------------------------------------------------------
\* The streaming endpoint: tags, fields, frames and the socket task
\* ------------------------------------------------------------------------
DigitChars == <<"0", "1", "2", "3", "4", "5", "6", "7", "8", "9">>

is_digit(ch) == \E i \in 1..10 : DigitChars[i] = ch

digit(ch) == (CHOOSE i \in 1..10 : DigitChars[i] = ch) - 1

RECURSIVE digits_value(_, _)
digits_value(s, acc) ==
    IF s = << >> THEN acc ELSE digits_value(Tail(s), acc * 10 + digit(Head(s)))

\* u64::from_str on a string held as its characters: an optional leading
\* plus sign, then one or more decimal digits (the tags here do not overflow)
u64_from_str(s) ==
    LET body == IF s # << >> /\ Head(s) = "+" THEN Tail(s) ELSE s
    IN  IF s = << >> THEN Err("Empty")
        ELSE IF body = << >> THEN Err("InvalidDigit")
        ELSE IF \E i \in 1..Len(body) : ~is_digit(body[i]) THEN Err("InvalidDigit")
        ELSE Ok(digits_value(body, 0))

RECURSIVE u64_to_string(_)
u64_to_string(n) ==
    IF n < 10 THEN << DigitChars[n + 1] >>
    ELSE u64_to_string(n \div 10) \o << DigitChars[(n % 10) + 1] >>

StreamingFields ==
    {"speed", "odometer", "soc", "elevation", "est_heading", "est_lat", "est_lng",
     "power", "shift_state", "range", "est_range", "heading"}

\* the value of a subscription is held as its comma-separated items
deserialize_field_names(items) == SelectSeq(items, LAMBDA x : x \in StreamingFields)

\* Option<T> to a cell of the line: the value's text, or the empty text
push_data(opt, to_string(_)) == IF opt.some THEN to_string(opt.val) ELSE << >>

\* a position is one word, and so is its text
text(x) == << x >>

\* f64::from_str on a cell: the word of a position
f64_from_str(s) == IF Len(s) = 1 /\ s[1] = "position" THEN Ok(s[1]) ELSE Err("Invalid")

\* a shift state is its variant and, for Unknown, the text it was read from
ShiftState_Unknown(s) == [variant |-> "Unknown", text |-> s]

\* impl FromStr for ShiftState
ShiftState_from_str(s) ==
    CASE s = <<"P">> -> [variant |-> "Park", text |-> << >>]
      [] s = <<"D">> -> [variant |-> "Drive", text |-> << >>]
      [] s = <<"R">> -> [variant |-> "Reverse", text |-> << >>]
      [] OTHER -> ShiftState_Unknown(s)

\* a mutant of the text of a shift state: the name of the variant
ShiftState_to_string_long(x) ==
    IF x.variant = "Unknown" THEN x.text ELSE << x.variant >>

\* impl ToString for ShiftState
ShiftState_to_string(x) ==
    CASE x.variant = "Park" -> <<"P">>
      [] x.variant = "Drive" -> <<"D">>
      [] x.variant = "Reverse" -> <<"R">>
      [] OTHER -> x.text

\* a mutant of serialize_fields: the time cell counts down
serialize_fields_countdown(fields, sample) ==
    << u64_to_string(100000 - sample.time) >>
        \o [i \in 1..Len(fields) |->
              IF fields[i] = "shift_state"
              THEN push_data(sample[fields[i]], ShiftState_to_string)
              ELSE IF fields[i] \in {"est_lat", "est_lng"}
              THEN push_data(sample[fields[i]], text)
              ELSE push_data(sample[fields[i]], u64_to_string)]

\* the line of a sample, held as its cells: the timestamp, then the fields
serialize_fields(fields, sample) ==
    << u64_to_string(sample.time) >>
        \o [i \in 1..Len(fields) |->
              IF fields[i] = "shift_state"
              THEN push_data(sample[fields[i]], ShiftState_to_string)
              ELSE IF fields[i] \in {"est_lat", "est_lng"}
              THEN push_data(sample[fields[i]], text)
              ELSE push_data(sample[fields[i]], u64_to_string)]

\* StreamingData::new
StreamingData_new(id, time) ==
    [id |-> id, time |-> time, speed |-> None, odometer |-> None, soc |-> None,
     elevation |-> None, est_heading |-> None, est_lat |-> None, est_lng |-> None,
     power |-> None, shift_state |-> None, range |-> None, est_range |-> None,
     heading |-> None]

\* parse_field of the client: an empty item is None, any other item is parsed
\* as the type of the field (the numbers of the model are whole)
parse_field(value, field, n) ==
    IF value = << >> THEN Ok(None)
    ELSE LET parsed == IF field = "shift_state" THEN Ok(ShiftState_from_str(value))
                       ELSE IF field \in {"est_lat", "est_lng"} THEN f64_from_str(value)
                       ELSE u64_from_str(value)
         IN  IF parsed.ok THEN Ok(Some(parsed.val))
             ELSE Err([error |-> "FieldError", field |-> field, n |-> n,
                       value |-> value])

\* the items after the time, one by one from item n (counted from 0) on: the
\* first error ends the decoding
RECURSIVE parse_fields(_, _, _, _)
parse_fields(d, items, fields, n) ==
    IF n >= Len(items) THEN Ok(d)
    ELSE IF n >= Len(fields) THEN Err([error |-> "FieldMissingError", n |-> n])
    ELSE LET r == parse_field(items[n + 1], fields[n + 1], n)
         IN  IF ~r.ok THEN r
             ELSE parse_fields([d EXCEPT ![fields[n + 1]] = r.val], items, fields,
                               n + 1)

\* deserialize_fields of the client, on the line held as its characters
deserialize_fields(id, str, fields) ==
    LET split == str_split(str, ",")
        time == u64_from_str(split[1])
    IN  IF ~time.ok THEN Err([error |-> "InvalidTime", value |-> split[1]])
        ELSE parse_fields(StreamingData_new(id, time.val), Tail(split), fields, 0)

data_update(vehicle_id, value) ==
    [msg_type |-> "data:update", tag |-> u64_to_string(vehicle_id), value |-> value]

DataError_new(tag, error_type, value) ==
    [msg_type |-> "data:error", tag |-> tag, error_type |-> error_type,
     value |-> value]

\* a mutant of the error: the disconnect is reported as a client error
DataError_disconnected_as_client(vehicle_id) ==
    DataError_new(u64_to_string(vehicle_id), "client_error", "disconnected")

DataError_disconnected(vehicle_id) ==
    DataError_new(u64_to_string(vehicle_id), "vehicle_disconnected", "disconnected")

\* a mutant of the greeting: another timeout is announced
ControlHello_short == [msg_type |-> "control:hello", connection_timeout |-> 3000]

ControlHello == [msg_type |-> "control:hello", connection_timeout |-> 30000]

\* the tags clients send: the vehicle's guid in two spellings, the guid of
\* no vehicle, and a word
Tags ==
    LET guid == u64_to_string(123456789)
    IN  {guid, <<"+">> \o guid, u64_to_string(999456000), <<"c", "a", "r">>}

\* the values clients subscribe with
Values == { <<"speed", "bogus", "soc", "shift_state">> }

\* a mutant of the checks: the scope of the token is not looked at
check_subscribe_any_scope(token, tag, value, secret, now) ==
    LET claims == validate_access_token(token, secret, now)
        vehicle_id == u64_from_str(tag)
    IN  IF ~claims.ok THEN Err(DataError_new(tag, "client_error", "Invalid token"))
        ELSE IF ~vehicle_id.ok
        THEN Err(DataError_new(tag, "client_error", "Invalid vehicle id"))
        ELSE IF ~\E v \in get_vehicles : v.vehicle_id = vehicle_id.val
        THEN Err(DataError_new(tag, "client_error", "Invalid vehicle id"))
        ELSE Ok([vehicle |-> (CHOOSE v \in get_vehicles :
                                 v.vehicle_id = vehicle_id.val).id,
                 vehicle_id |-> vehicle_id.val,
                 fields |-> deserialize_field_names(value)])

\* process_client_message for data:subscribe_oauth, up to the Subscribe command
check_subscribe(token, tag, value, secret, now) ==
    LET claims == subscribe_claims(token, secret, now)
        vehicle_id == u64_from_str(tag)
    IN  IF ~claims.ok THEN Err(DataError_new(tag, "client_error", claims.err))
        ELSE IF ~vehicle_id.ok
        THEN Err(DataError_new(tag, "client_error", "Invalid vehicle id"))
        ELSE IF ~\E v \in get_vehicles : v.vehicle_id = vehicle_id.val
        THEN Err(DataError_new(tag, "client_error", "Invalid vehicle id"))
        ELSE Ok([vehicle |-> (CHOOSE v \in get_vehicles :
                                 v.vehicle_id = vehicle_id.val).id,
                 vehicle_id |-> vehicle_id.val,
                 fields |-> deserialize_field_names(value)])

\* what a client sends on the socket
ClientMessages ==
    {[kind |-> "subscribe", token |-> t, tag |-> g, value |-> f] :
        t \in BearerTokens, g \in Tags, f \in Values}
      \cup {[kind |-> "unsubscribe", tag |-> g] : g \in Tags}
      \cup {[kind |-> k] : k \in {"ping", "pong", "close", "gone", "not json",
                                  "not utf8"}}

Closed(cn, frame) ==
    [cn EXCEPT !.pc = "closed", !.subs = NoSubscriptions, !.reply = None,
               !.req = NoRequest, !.sent_at = 0, !.attempt = None, !.frame = frame,
               !.last = NoTimes]

\* a mutant of Without: every subscription goes
Without_any(subs, g) == NoSubscriptions

Without(subs, g) == [h \in DOMAIN subs \ {g} |-> subs[h]]

\* a mutant of With: a guid that is subscribed keeps its subscription
With_kept(subs, g, s) ==
    [h \in DOMAIN subs \cup {g} |-> IF h = g /\ g \notin DOMAIN subs THEN s ELSE subs[h]]

With(subs, g, s) == [h \in DOMAIN subs \cup {g} |-> IF h = g THEN s ELSE subs[h]]

\* process_client_message for data:unsubscribe, and the removal that follows
\* it in the loop: a tag that is no number ends the connection with an error
DataUnsubscribe(cn, tag) ==
    LET vehicle_id == u64_from_str(tag)
    IN  IF ~vehicle_id.ok
        THEN Closed(cn, Some(DataError_new(tag, "client_error", "Invalid vehicle id")))
        ELSE [cn EXCEPT !.subs = Without(@, vehicle_id.val)]

\* the socket is upgraded and the task says hello; when the hello cannot be
\* sent the task ends without a frame
Connect(k) ==
    /\ conn[k].pc \in {"new", "closed"}
    /\ \E sent \in BOOLEAN :
          conn' = [conn EXCEPT ![k] =
                  [pc |-> IF sent THEN "loop" ELSE "closed", req |-> NoRequest,
                   reply |-> None, sent_at |-> 0, subs |-> NoSubscriptions,
                   frame |-> IF sent THEN Some(ControlHello) ELSE None,
                   granted |-> {}, last |-> NoTimes, attempt |-> None]]
    /\ UNCHANGED <<instant, ss, data, maybe_s_tx, inbox, watcher, descriptor, rest,
                   lastIter, tokVars>>

\* msg = socket.recv(), and process_client_message up to its await, for a
\* client that sends one of the given messages
Receive(k, messages) ==
    /\ conn[k].pc = "loop"
    /\ \E m \in messages :
        LET cn == conn[k]
        IN  conn' = [conn EXCEPT ![k] =
              CASE m.kind \in {"close", "gone", "not json", "not utf8"} ->
                      Closed(cn, cn.frame)
                [] m.kind \in {"ping", "pong"} -> cn
                [] m.kind = "unsubscribe" -> DataUnsubscribe(cn, m.tag)
                [] m.kind = "subscribe" ->
                      LET c == check_subscribe(m.token, m.tag, m.value, Secret, utc)
                          attempt == [tag |-> m.tag,
                                      token |-> Why(m.token, "Access", utc),
                                      scoped |-> "VehicleDeviceData"
                                                    \in m.token.claims.scopes]
                      IN  IF ~c.ok
                          THEN Closed(cn, Some(c.err))
                          ELSE [cn EXCEPT
                                   !.pc = "send",
                                   !.attempt = Some(attempt),
                                   !.req = [endpoint |-> "streaming",
                                            id |-> c.val.vehicle_id,
                                            vehicle |-> c.val.vehicle,
                                            cmd |-> "Subscribe",
                                            arg |-> c.val.fields,
                                            query |-> None]]]
    /\ UNCHANGED <<instant, ss, data, maybe_s_tx, inbox, watcher, descriptor, rest,
                   lastIter, tokVars>>

\* a message of any client
ClientMessage(k) == Receive(k, ClientMessages)

\* a message of the vehicle's owner: subscribe with the token of all scopes
\* and the vehicle's guid, unsubscribe, or close
OwnerMessages ==
    {[kind |-> "subscribe", token |-> OwnerToken, tag |-> u64_to_string(Guid(v)),
      value |-> f] : v \in VehicleIds, f \in Values}
      \cup {[kind |-> "unsubscribe", tag |-> u64_to_string(Guid(v))] : v \in VehicleIds}
      \cup {[kind |-> "close"]}

OwnerMessage(k) == Receive(k, OwnerMessages)

\* the values of the owner: a name that is no field, a field twice, no name
DeclaredLists == Values \cup { <<"soc", "soc">>, << >> }

\* a client that subscribes as the owner, with one list of fields or another,
\* and otherwise sends only a Ping, a Pong or a text that is no envelope
StrayMessage(k) ==
    Receive(k, {[m EXCEPT !.value = f] :
                   m \in {o \in OwnerMessages : o.kind = "subscribe"},
                   f \in DeclaredLists}
                 \cup {[kind |-> x] : x \in {"ping", "pong", "not json"}})

\* self.0.send(Command::Subscribe(tx)).await
ConnSend(k) ==
    /\ conn[k].pc = "send"
    /\ Len(inbox[conn[k].req.vehicle]) < InboxCapacity
    /\ inbox' = [inbox EXCEPT ![conn[k].req.vehicle] =
                   Append(@, [cmd |-> "Subscribe", arg |-> "none", from |-> k])]
    /\ conn' = [conn EXCEPT ![k].pc = "wait", ![k].sent_at = instant]
    /\ UNCHANGED <<instant, ss, data, maybe_s_tx, watcher, descriptor, rest,
                   lastIter, tokVars>>

\* the reply to Subscribe arrives: the subscription is inserted, or the error
\* ends the connection
ConnFinish(k) ==
    /\ conn[k].pc = "wait"
    /\ conn[k].reply.some
    /\ LET cn == conn[k]
           r == cn.reply.val
           g == cn.req.id
       IN  conn' = [conn EXCEPT ![k] =
              IF r.ok
              THEN [cn EXCEPT !.pc = "loop", !.reply = None,
                              !.subs = With(@, g, [fields |-> cn.req.arg,
                                                   rx |-> r.val]),
                              !.req = NoRequest, !.sent_at = 0, !.attempt = None,
                              !.granted = @ \cup {cn.attempt.val}]
              ELSE Closed(cn, Some(DataError_disconnected(g)))]
    /\ UNCHANGED <<instant, ss, data, maybe_s_tx, inbox, watcher, descriptor, rest,
                   lastIter, tokVars>>

\* tokio::time::timeout(TIMEOUT, rx) elapses in CommandSender::subscribe
ConnTimeout(k) ==
    /\ conn[k].pc = "wait"
    /\ ~conn[k].reply.some
    /\ instant >= conn[k].sent_at + TIMEOUT
    /\ conn' = [conn EXCEPT ![k] =
                  Closed(conn[k], Some(DataError_disconnected(conn[k].req.id)))]
    /\ UNCHANGED <<instant, ss, data, maybe_s_tx, inbox, watcher, descriptor, rest,
                   lastIter, tokVars>>

\* Some((vehicle_id, fields, data)) = futures.next()
ConnData(k) ==
    /\ conn[k].pc = "loop"
    /\ \E g \in DOMAIN conn[k].subs :
        /\ recv_ready(conn[k].subs[g].rx)
        /\ LET s == conn[k].subs[g]
               r == broadcast_recv(s.rx)
           IN  conn' = [conn EXCEPT ![k] =
                  IF r[1].ok
                  THEN LET value == serialize_fields(s.fields, r[1].val)
                       IN  [conn[k] EXCEPT
                               !.subs[g].rx = r[2],
                               !.frame = Some(data_update(g, value)),
                               !.last = With(@, g, digits_value(value[1], 0))]
                  ELSE [conn[k] EXCEPT
                           !.subs = Without(@, g),
                           !.frame = Some(DataError_disconnected(g))]]
    /\ UNCHANGED <<instant, ss, data, maybe_s_tx, inbox, watcher, descriptor, rest,
                   lastIter, tokVars>>

\* ------------------------------------------------------------------------
\* The server: the actor of every vehicle, the watcher, REST callers,
\* streaming connections and the clock
\* ------------------------------------------------------------------------
Actor == \E v \in VehicleIds :
    UpdateDrive(v) \/ UpdateCharge(v) \/ Sleep(v) \/ WakeUp(v) \/ Serve(v)

Watcher == \E v \in VehicleIds : WatcherStart(v) \/ WatcherTimeout(v) \/ WatcherRecv(v)

Rest == \E c \in RestCallers :
    RestRequest(c) \/ RestSend(c) \/ RestFinish(c) \/ RestReturn(c)

Stream == \E k \in Conns :
    Connect(k) \/ ClientMessage(k) \/ ConnSend(k) \/ ConnFinish(k) \/ ConnData(k)

\* the token endpoint on its own, and pairs of simultaneous requests
InitAuth == InitTok /\ InitSim

SpecTok == InitAuth /\ [][NextTok]_vars

SpecAuth == InitAuth /\ [][NextAuth]_vars

\* the tokens of the server and the token the client builds from a response
SpecRaw == InitAuth /\ [][TickUtc \/ ClientRefresh \/ ClientToken]_vars

Owner == \E c \in RestCallers :
    OwnerRequest(c) \/ RestSend(c) \/ RestFinish(c) \/ RestReturn(c)

NextSim == Advance \/ Actor \/ Owner

SpecSim == Init /\ [][NextSim]_vars

NextRest == Advance \/ Actor \/ Rest

SpecRest == Init /\ [][NextRest]_vars

\* the owner's requests beside commands of another client of the vehicle,
\* with an actor that at times is not scheduled while time passes
NextCall ==
    \/ Advance
    \/ Stall
    \/ Actor
    \/ \E v \in VehicleIds : Simulate(v)
    \/ \E c \in RestCallers :
          OwnerRequest(c) \/ RestSend(c) \/ RestFinish(c) \/ RestReturn(c)
            \/ RestTimeout(c)

SpecCall == Init /\ [][NextCall]_vars

\* a connection whose client subscribes and sends stray frames
SpecStray ==
    Init /\ [][\/ Advance
               \/ \E v \in VehicleIds :
                     UpdateDrive(v) \/ Sleep(v) \/ Serve(v) \/ Simulate(v)
               \/ \E k \in Conns :
                     Connect(k) \/ StrayMessage(k) \/ ConnSend(k) \/ ConnFinish(k)
                       \/ ConnData(k)]_vars

\* the codec of the streaming line: a connection holds a subscription with
\* any list of fields, and any sample waits in its receiver
FieldLists ==
    UNION {[1..n -> {"speed", "soc", "shift_state", "est_lat"}] : n \in 0..MaxFields}

StreamingSamples ==
    {[StreamingData_new(Guid(v), t) EXCEPT
         !.speed = speed, !.soc = soc, !.shift_state = shift_state, !.est_lat = est_lat,
         !.heading = Some(0)] :
       v \in VehicleIds, t \in {0, 1700}, speed \in {None, Some(0), Some(60)},
       soc \in {None, Some(41)}, est_lat \in {None, Some("position")},
       shift_state \in {None} \cup
          {Some(ShiftState_from_str(x)) :
              x \in {<<"P">>, <<"D">>, <<"N">>, << >>, <<"a", ",", "b">>}}}

InitCodec ==
    /\ InitClient
    /\ instant = 0
    /\ ss = [v \in VehicleIds |-> idle(0)]
    /\ data = [v \in VehicleIds |-> get_vehicle_data(VehicleDefinition(v), utc)]
    /\ maybe_s_tx = [v \in VehicleIds |-> TRUE]
    /\ inbox = [v \in VehicleIds |-> << >>]
    /\ watcher = [v \in VehicleIds |-> [pc |-> "start", sent_at |-> 0, rx |-> Receiver]]
    /\ descriptor = [v \in VehicleIds |-> VehicleDefinition(v)]
    /\ rest = [c \in RestCallers |-> NoCall]
    /\ \E fields \in FieldLists, sample \in StreamingSamples :
          conn = [k \in Conns |->
                    [pc |-> "loop", req |-> NoRequest, reply |-> None, sent_at |-> 0,
                     subs |-> With(NoSubscriptions, sample.id,
                                   [fields |-> fields,
                                    rx |-> broadcast_send(Receiver, sample)]),
                     frame |-> Some(ControlHello), granted |-> {}, last |-> NoTimes,
                     attempt |-> None]]
    /\ lastIter = [v \in VehicleIds |-> NoIteration]

SpecCodec == InitCodec /\ [][\E k \in Conns : ConnData(k)]_vars

\* vehicle_data with every query parameter, on a vehicle the owner drives,
\* parks and puts to sleep
NextMask ==
    \/ \E v \in VehicleIds : Serve(v) \/ Simulate(v)
    \/ \E c \in RestCallers :
          MaskRequest(c) \/ RestSend(c) \/ RestFinish(c) \/ RestReturn(c)

SpecMask == Init /\ [][NextMask]_vars

\* the streaming endpoint, with an owner who drives, parks and puts the
\* vehicle to sleep
NextStream ==
    \/ Advance
    \/ \E v \in VehicleIds : UpdateDrive(v) \/ Sleep(v) \/ Serve(v) \/ Simulate(v)
    \/ Stream

SpecStream == Init /\ [][NextStream]_vars

\* the owner's vehicle and the owner's streaming connection
NextDrive ==
    \/ Advance
    \/ Actor
    \/ \E v \in VehicleIds : OwnerCommand(v)
    \/ \E k \in Conns :
          Connect(k) \/ OwnerMessage(k) \/ ConnSend(k) \/ ConnFinish(k) \/ ConnData(k)

SpecDrive == Init /\ [][NextDrive]_vars

\* ------------------------------------------------------------------------
\* Properties of the owner API and the simulator's commands
\* ------------------------------------------------------------------------
\* C5: a request whose access token is valid and lacks the scope of its route
\* is answered MissingScopes (403) as soon as its handler starts, whether or
\* not its vehicle id is registered: it reads no descriptor, and neither it
\* nor anything after it puts a command of that request into an inbox.
Thm_C5_ScopeCheckFirst ==
    \A c \in RestCallers :
        (rest[c].pc # "idle" /\ rest[c].why = "valid" /\ ~rest[c].scoped)
        => /\ rest[c].pc = "done"
           /\ rest[c].response = Some(Err("MissingScopes"))
           /\ into_response(rest[c].response.val.err).status = 403
           /\ ~rest[c].enqueued
           /\ ~rest[c].read
           /\ \A v \in VehicleIds :
                \A i \in 1..Len(inbox[v]) : inbox[v][i].from # c

\* the scope is missing on a request for a vehicle that does not exist
Wit_C5_MissingScopeUnknownVehicle ==
    \E c \in RestCallers :
        /\ rest[c].why = "valid"
        /\ ~rest[c].scoped
        /\ rest[c].req.endpoint = "vehicle_data"
        /\ rest[c].req.id \notin VehicleIds
        /\ rest[c].response = Some(Err("MissingScopes"))

\* this step is the actor of v serving the command cmd
Served(v, cmd) ==
    /\ inbox[v] # << >>
    /\ Head(inbox[v]).cmd = cmd
    /\ Len(inbox'[v]) < Len(inbox[v])

\* the claim as the specification words it: a WakeUp served while Sleeping
\* always leaves the wake-up 60 s ahead
Cex_C7_WakeAlwaysSixtyAhead ==
    [][\A v \in VehicleIds :
          (Served(v, "WakeUp") /\ ss[v].tag = "Sleeping")
          => /\ lastIter'[v].reply = Some(Err("DeviceNotAvailable"))
             /\ ss'[v] = [tag |-> "Sleeping", wake_up_time |-> Some(instant + 60)]
      ]_vars

\* C7: a WakeUp served while Sleeping is answered DeviceNotAvailable and the
\* vehicle stays Sleeping, with its wake-up 60 s ahead if none was scheduled
\* and with the scheduled wake-up kept otherwise; a WakeUp served in any other
\* state is answered with success and leaves the discriminant as it was.
Thm_C7_WakeUpContract ==
    [][\A v \in VehicleIds :
          Served(v, "WakeUp")
          => IF ss[v].tag = "Sleeping"
             THEN /\ lastIter'[v].reply = Some(Err("DeviceNotAvailable"))
                  /\ ss'[v].tag = "Sleeping"
                  /\ ss'[v].wake_up_time =
                        IF ss[v].wake_up_time.some THEN ss[v].wake_up_time
                        ELSE Some(instant + 60)
             ELSE /\ lastIter'[v].reply = Some(Ok(Unit))
                  /\ ss'[v].tag = ss[v].tag
      ]_vars

\* a WakeUp was served while a wake-up was already scheduled earlier
Wit_C7_SecondWakeUp ==
    \E v \in VehicleIds :
        /\ lastIter[v].branch = "WakeUp"
        /\ lastIter[v].reply = Some(Err("DeviceNotAvailable"))
        /\ ss[v].tag = "Sleeping"
        /\ ss[v].wake_up_time.some
        /\ ss[v].wake_up_time.val < instant + 60

SubRecords ==
    {"charge_state", "climate_state", "drive_state", "gui_settings",
     "vehicle_config", "vehicle_state"}

\* C8: a GetVehicleData is answered DeviceNotAvailable exactly when it is
\* served while Sleeping; otherwise the answer is the snapshot as it stands,
\* with its six sub-records present; serving it changes neither the
\* discriminant nor a field of the snapshot.
Thm_C8_GetVehicleDataContract ==
    [][\A v \in VehicleIds :
          Served(v, "GetVehicleData")
          => LET r == lastIter'[v].reply.val
             IN  /\ lastIter'[v].reply.some
                 /\ (r = Err("DeviceNotAvailable")) <=> (ss[v].tag = "Sleeping")
                 /\ (ss[v].tag # "Sleeping")
                    => /\ r.ok
                       /\ \A f \in SubRecords : r.val[f] = Some(data[v][f])
                       /\ r.val.state = data[v].state
                       /\ r.val.id = data[v].id
                 /\ ss'[v].tag = ss[v].tag
                 /\ data'[v] = data[v]
      ]_vars

\* the snapshot was read while the vehicle was driving
Wit_C8_SnapshotWhileDriving ==
    \E v \in VehicleIds :
        /\ lastIter[v].branch = "GetVehicleData"
        /\ lastIter[v].reply.val.ok
        /\ ss[v].tag = "Driving"
        /\ lastIter[v].reply.val.val.drive_state.val.shift_state.some
        /\ lastIter[v].reply.val.val.drive_state.val.shift_state.val.variant = "Drive"

\* the states a vehicle put into state x can be in before the next Simulate:
\* x, and what the timers make of it
Successors(x) ==
    CASE x = "Driving" -> {"Driving", "Idle", "Sleeping"}
      [] x = "Charging" -> {"Charging", "Idle", "Sleeping"}
      [] x = "Idle" -> {"Idle", "Sleeping"}
      [] x = "IdleNoSleep" -> {"IdleNoSleep"}
      [] x = "Sleeping" -> {"Sleeping", "Idle"}

Checked(a) ==
    /\ a.token = "valid"
    /\ a.scoped
    /\ u64_from_str(a.tag).ok
    /\ \E v \in get_vehicles : v.vehicle_id = u64_from_str(a.tag).val

\* this step inserts a subscription into the connection's map
Inserts(k) ==
    \/ conn[k].pc = "wait" /\ conn'[k].pc = "loop"
    \/ \E g \in DOMAIN conn'[k].subs : g \notin DOMAIN conn[k].subs

\* the claim as the specification words it: the tag of a data:update is the
\* tag of an earlier accepted data:subscribe_oauth of the connection
Cex_C6_UpdateCarriesSubscribedTag ==
    [][\A k \in Conns :
          LET f == conn'[k].frame
          IN  (f.some /\ f.val.msg_type = "data:update")
              => \E a \in conn'[k].granted : a.tag = f.val.tag /\ Checked(a)
      ]_vars

\* C6: a data:update whose tag is the decimal text of the guid g is sent on a
\* connection only after a data:subscribe_oauth of that connection whose tag
\* parses to g, whose token validated as an access token holding
\* VehicleDeviceData, with g the guid of a registered vehicle, and which the
\* simulator answered with a receiver; a subscription is inserted only by
\* such a subscribe.
Thm_C6_UpdateOnlyAfterSubscribe ==
    [][\A k \in Conns :
          LET f == conn'[k].frame
          IN  /\ (f.some /\ f.val.msg_type = "data:update")
                 => \E a \in conn'[k].granted :
                       /\ Checked(a)
                       /\ u64_to_string(u64_from_str(a.tag).val) = f.val.tag
              /\ Inserts(k)
                 => /\ conn[k].attempt.some
                    /\ Checked(conn[k].attempt.val)
                    /\ conn[k].reply.some
                    /\ conn[k].reply.val.ok
                    /\ conn[k].attempt.val \in conn'[k].granted
                    /\ u64_from_str(conn[k].attempt.val.tag).val
                          \in DOMAIN conn'[k].subs
      ]_vars

\* an update is sent to a connection that subscribed under another spelling
\* of the guid
Wit_C6_UpdateAfterPlusTag ==
    \E k \in Conns :
        /\ conn[k].frame.some
        /\ conn[k].frame.val.msg_type = "data:update"
        /\ conn[k].frame.val.tag = u64_to_string(123456789)
        /\ conn[k].granted # {}
        /\ \A a \in conn[k].granted : a.tag = <<"+">> \o u64_to_string(123456789)

\* C9: a Subscribe is answered Disconnected exactly when it is served while
\* Sleeping; served in any other state it is answered with a receiver of the
\* streaming broadcast, and the vehicle has that broadcast from then on.
Cex_C9_SubscribeEnsuresBroadcast ==
    [][\A v \in VehicleIds :
          Served(v, "Subscribe")
          => LET r == lastIter'[v].reply.val
                 k == Head(inbox[v]).from
             IN  /\ (~r.ok) <=> (ss[v].tag = "Sleeping")
                 /\ (ss[v].tag # "Sleeping")
                    => /\ maybe_s_tx'[v]
                       /\ conn'[k].reply.some
                       /\ conn'[k].reply.val.ok
                       /\ ~conn'[k].reply.val.val.closed
      ]_vars

\* ------------------------------------------------------------------------
\* Properties of publishing and of the streaming connection over time
\* ------------------------------------------------------------------------
\* the samples waiting in the receivers a connection holds, in its
\* subscriptions and in a reply it has not taken yet
HeldSamples(cn) ==
    {cn.subs[g].rx.buf.val : g \in {h \in DOMAIN cn.subs : cn.subs[h].rx.buf.some}}
      \cup (IF cn.reply.some /\ cn.reply.val.ok /\ cn.reply.val.val.buf.some
            THEN {cn.reply.val.val.buf.val} ELSE {})

\* C11: a sample reaches a receiver only in an iteration of the actor that
\* began in state Driving with the streaming broadcast allocated and that took
\* the driving tick, not a command; and the broadcast becomes allocated only
\* in an iteration that serves a Subscribe.
Thm_C11_OnlyDrivingTickPublishes ==
    [][\A v \in VehicleIds :
          /\ (\/ \E k \in Conns : ~(HeldSamples(conn'[k]) \subseteq HeldSamples(conn[k]))
              \/ lastIter'[v].published # lastIter[v].published
                    /\ lastIter'[v].published.some)
             => /\ ss[v].tag = "Driving"
                /\ maybe_s_tx[v]
                /\ inbox' = inbox
                /\ lastIter'[v].branch = "drive"
                /\ lastIter'[v].published = Some(StreamingData_from(data'[v]))
          /\ (maybe_s_tx'[v] /\ ~maybe_s_tx[v]) => Served(v, "Subscribe")
      ]_vars

\* a driving tick has published a sample that waits in a subscriber's receiver
Wit_C11_SampleInReceiver ==
    \E v \in VehicleIds, k \in Conns :
        /\ lastIter[v].branch = "drive"
        /\ lastIter[v].published.some
        /\ lastIter[v].published.val \in HeldSamples(conn[k])

\* the registry's watcher beside the owner's commands
NextMirror ==
    \/ Advance
    \/ Actor
    \/ \E v \in VehicleIds : WatcherStart(v) \/ WatcherRecv(v) \/ OwnerCommand(v)

\* the actor serves its inbox and the watcher takes what it is sent
FairMirror ==
    \A v \in VehicleIds :
        WF_vars(Serve(v)) /\ WF_vars(WatcherStart(v)) /\ WF_vars(WatcherRecv(v))

SpecMirror == Init /\ [][NextMirror]_vars /\ FairMirror

\* the online_state the registry shows for a discriminant
Shown(t) == IF t = "Sleeping" THEN "offline" ELSE "online"

Cex_C14_SubscriptionLiveWhenDrivingStarts ==
    [][\A v \in VehicleIds, k \in Conns :
          (/\ Served(v, "Simulate")
           /\ Head(inbox[v]).arg = "Driving"
           /\ lastIter[v].branch = "Subscribe"
           /\ ss[v].tag \notin {"Driving", "Sleeping"}
           /\ conn[k].pc = "wait"
           /\ conn[k].req.vehicle = v
           /\ conn[k].reply.some
           /\ conn[k].reply.val.ok)
          => /\ ~conn[k].reply.val.val.closed
             /\ maybe_s_tx[v]
             /\ maybe_s_tx'[v]
      ]_vars

\* the owner's connection beside a vehicle that drives, parks and sleeps
NextSurface ==
    \/ Advance
    \/ \E v \in VehicleIds : UpdateDrive(v) \/ Sleep(v) \/ Serve(v) \/ Simulate(v)
    \/ \E k \in Conns :
          Connect(k) \/ OwnerMessage(k) \/ ConnSend(k) \/ ConnFinish(k) \/ ConnData(k)

\* the actor serves its inbox; a sender waiting for room in the inbox gets
\* it in its turn (the channel queues its senders); the socket task takes
\* the reply, and its select! takes a ready receiver again and again
FairSurface ==
    /\ \A v \in VehicleIds : WF_vars(Serve(v))
    /\ \A k \in Conns :
          SF_vars(ConnSend(k)) /\ WF_vars(ConnFinish(k)) /\ SF_vars(ConnData(k))

SpecSurface == Init /\ [][NextSurface]_vars /\ FairSurface

\* the frame a step of connection k sends, if it sends one and goes on
Sends(k, msg_type) ==
    /\ conn[k].pc = "loop"
    /\ conn'[k].pc = "loop"
    /\ conn'[k].frame # conn[k].frame
    /\ conn'[k].frame.val.msg_type = msg_type

FairWake ==
    /\ SF_vars(Advance)
    /\ \A v \in VehicleIds : WF_vars(Serve(v)) /\ WF_vars(WakeUp(v))
    /\ \A c \in RestCallers : SF_vars(RestSend(c))

SpecWake == Init /\ [][NextSim]_vars /\ FairWake

\* the last instant the clock of the model reaches
Horizon == (MaxInstant \div TimeStep) * TimeStep

\* C16: once a WakeUp served while Sleeping has set the wake deadline (within
\* the horizon of the clock), either a Simulate is served or the deadline
\* fires and the vehicle becomes Idle; the deadline does not fire early; and
\* a GetVehicleData served while the vehicle is Idle after the deadline has
\* fired is answered with the snapshot.
Thm_C16_WakeTransitions ==
    /\ \A v \in VehicleIds :
          (ss[v].tag = "Sleeping" /\ ss[v].wake_up_time.some
             /\ ss[v].wake_up_time.val <= Horizon)
          ~> (\/ lastIter[v].branch = "wake" /\ ss[v].tag = "Idle"
              \/ lastIter[v].branch = "Simulate")
    /\ [][\A v \in VehicleIds :
            /\ (ss[v].tag = "Sleeping" /\ ss'[v].tag # "Sleeping"
                   /\ lastIter'[v].branch # "Simulate")
               => /\ ss[v].wake_up_time.some
                  /\ instant >= ss[v].wake_up_time.val
                  /\ lastIter'[v].branch = "wake"
                  /\ ss'[v] = idle(instant)
            /\ (Served(v, "GetVehicleData") /\ ss[v].tag = "Idle"
                   /\ lastIter[v].branch = "wake")
               => lastIter'[v].reply = Some(Ok(VehicleData_from(data[v])))
       ]_vars

\* the vehicle woke at its deadline and the owner has its data
Wit_C16_DataAfterWake ==
    \E v \in VehicleIds :
        /\ ss[v].tag = "Idle"
        /\ lastIter[v].branch = "GetVehicleData"
        /\ lastIter[v].reply = Some(Ok(VehicleData_from(data[v])))
        /\ lastIter[v].simulated = "Sleeping"

\* ------------------------------------------------------------------------
\* Properties of vehicle_data and wake_up
\* ------------------------------------------------------------------------
\* the handler of caller c ends after a reply to its command cmd
Finishes(c, cmd) ==
    /\ rest[c].pc = "wait"
    /\ rest'[c].pc = "done"
    /\ rest[c].req.cmd = cmd

\* the words a query parameter mentions
Mentioned(query) ==
    IF query.some THEN {query.val[i] : i \in 1..Len(query.val)} \ {";"} ELSE {}

SubRecordTags ==
    {"charge_state", "climate_state", "drive_state", "gui_settings", "vehicle_config",
     "vehicle_state"}

\* C17: vehicle_data on an awake vehicle with a mask of known names (or no
\* endpoints parameter) answers with each of the six sub-records present
\* exactly when its tag is in the mask, the position present exactly when
\* drive_state and location_data both are, and the other drive fields as
\* the simulator gave them.
Thm_C17_EndpointMask ==
    [][\A c \in RestCallers :
          (Finishes(c, "GetVehicleData") /\ rest[c].reply.val.ok
             /\ rest[c].req.query \in {None} \cup KnownQueries)
          => LET mask == Mentioned(rest[c].req.query)
                 given == rest[c].reply.val.val
                 out == rest'[c].response.val
             IN  /\ out.ok
                 /\ \A t \in SubRecordTags : out.val[t].some <=> t \in mask
                 /\ out.val.drive_state.some
                    => /\ out.val.drive_state.val.latitude.some
                          <=> "location_data" \in mask
                       /\ out.val.drive_state.val.longitude.some
                          <=> "location_data" \in mask
                       /\ \A f \in {"heading", "power", "shift_state", "speed",
                                     "timestamp"} :
                             out.val.drive_state.val[f] = given.drive_state.val[f]
       ]_vars

\* the drive state without the position, and no charge state
Wit_C17_DriveStateWithoutPosition ==
    \E c \in RestCallers :
        /\ rest[c].pc = "done"
        /\ rest[c].req.query = Some(join(Items({"drive_state", "vehicle_state"}), ";"))
        /\ rest[c].response.val.ok
        /\ rest[c].response.val.val.drive_state.some
        /\ ~rest[c].response.val.val.drive_state.val.latitude.some
        /\ rest[c].response.val.val.vehicle_state.some
        /\ ~rest[c].response.val.val.charge_state.some

\* C18 as stated: vehicle_data with the nine names joined by commas on an
\* awake vehicle succeeds with the six sub-records populated
Cex_C18_CommaJoinedSucceeds ==
    [][\A c \in RestCallers :
          (Finishes(c, "GetVehicleData") /\ rest[c].reply.val.ok
             /\ rest[c].req.query = Some(AllEndpoints(",")))
          => /\ rest'[c].response.val.ok
             /\ \A t \in SubRecordTags : rest'[c].response.val.val[t].some
       ]_vars

Cex_C20_DescriptorOnAnyOutcome ==
    [][\A c \in RestCallers :
          Finishes(c, "WakeUp")
          => rest'[c].response = Some(Ok(descriptor[rest[c].req.vehicle]))
       ]_vars

\* C20: wake_up with VehicleCmds for an existing vehicle returns the
\* vehicle's current descriptor when the simulator replies success, and
\* DeviceNotAvailable without reading the descriptor when the simulator
\* replies that the vehicle is asleep.
Thm_C20_WakeUpResponse ==
    [][\A c \in RestCallers :
          Finishes(c, "WakeUp")
          => LET v == rest[c].req.vehicle
             IN  IF rest[c].reply.val.ok
                 THEN /\ rest'[c].response = Some(Ok(descriptor[v]))
                      /\ rest'[c].read
                 ELSE /\ rest'[c].response = Some(Err("DeviceNotAvailable"))
                      /\ ~rest'[c].read
       ]_vars

\* wake_up answered DeviceNotAvailable and the vehicle is due to wake
Wit_C20_WakeUpRefusedAsleep ==
    \E c \in RestCallers :
        /\ rest[c].pc = "done"
        /\ rest[c].req.endpoint = "wake_up"
        /\ rest[c].response = Some(Err("DeviceNotAvailable"))
        /\ ss[rest[c].req.vehicle].tag = "Sleeping"
        /\ ss[rest[c].req.vehicle].wake_up_time.some

\* ------------------------------------------------------------------------
\* Properties of the calls to the simulator
\* ------------------------------------------------------------------------
\* C21 as stated: the timeout bounds the whole call, so a call that is still
\* out TIMEOUT seconds after it began is one whose timeout has expired
Cex_C21_TimeoutBoundsWholeCall ==
    \A c \in RestCallers :
        (rest[c].pc \in {"send", "wait"} /\ ~rest[c].reply.some
           /\ instant >= rest[c].called_at + TIMEOUT)
        => (rest[c].pc = "wait" /\ instant >= rest[c].sent_at + TIMEOUT)

\* ------------------------------------------------------------------------
\* Properties of the frames of a streaming connection
\* ------------------------------------------------------------------------
\* C22: a connection starts with control:hello announcing 30000 and holds
\* nothing yet, or, when the hello cannot be sent, ends with no frame; while
\* the connection runs a frame has been sent, every later frame is a
\* data:update or a data:error, and a client message is taken up only by a
\* connection that has said hello.
Thm_C22_HelloFirst ==
    /\ [](\A k \in Conns : conn[k].pc \in {"loop", "send", "wait"} => conn[k].frame.some)
    /\ [][\A k \in Conns :
            /\ (conn[k].pc \in {"new", "closed"} /\ conn'[k] # conn[k])
               => \/ /\ conn'[k].pc = "loop"
                     /\ conn'[k].frame = Some([msg_type |-> "control:hello",
                                               connection_timeout |-> 30000])
                     /\ conn'[k].subs = NoSubscriptions
                  \/ /\ conn'[k].pc = "closed"
                     /\ conn'[k].frame = None
            /\ (conn[k].pc \notin {"new", "closed"} /\ conn'[k].frame # conn[k].frame)
               => /\ conn'[k].frame.some
                  /\ conn'[k].frame.val.msg_type \in {"data:update", "data:error"}
            /\ (conn'[k].pc = "send" /\ conn[k].pc # "send")
               => (conn[k].pc = "loop" /\ conn[k].frame.some)
       ]_vars

\* the hello could not be sent: the connection has ended and sent nothing
Wit_C22_HelloFailed ==
    \E k \in Conns : conn[k].pc = "closed" /\ conn[k].frame = None

\* C23 as stated: after the data:error for a subscribe whose token is not
\* valid or lacks the scope, the connection goes on with the subscriptions
\* it holds
Cex_C23_ContinuesAfterInvalidToken ==
    [][\A k \in Conns :
          (/\ conn[k].pc = "loop"
           /\ conn'[k].frame # conn[k].frame
           /\ conn'[k].frame.some
           /\ conn'[k].frame.val.msg_type = "data:error"
           /\ conn'[k].frame.val.error_type = "client_error"
           /\ conn'[k].frame.val.value \in {"Invalid token", "Invalid scope"})
          => /\ conn'[k].pc = "loop"
             /\ conn'[k].subs = conn[k].subs
       ]_vars

\* C24 as stated: with a client that, besides subscribing, sends only a
\* Ping, a Pong or a text that is no envelope, the loop of a connection
\* keeps running (it is left only for the Subscribe of a subscription)
Cex_C24_StrayFramesIgnored ==
    [][\A k \in Conns :
          conn[k].pc = "loop" => conn'[k].pc \in {"loop", "send"}
       ]_vars

\* C25: a connection holds one subscription per guid. The answer to a
\* Subscribe puts the new receiver and the new field list in the place of the
\* subscription the guid had, and leaves the other guids alone; a data:update
\* takes one sample from the receiver of its guid and is the line of that
\* sample under the field list the guid holds at that time.
Thm_C25_OneSubscriptionPerGuid ==
    [][\A k \in Conns :
          /\ (conn[k].pc = "wait" /\ conn'[k].pc = "loop")
             => LET g == conn[k].req.id
                IN  /\ DOMAIN conn'[k].subs = DOMAIN conn[k].subs \cup {g}
                    /\ conn'[k].subs[g] = [fields |-> conn[k].req.arg,
                                           rx |-> conn[k].reply.val.val]
                    /\ \A h \in DOMAIN conn[k].subs \ {g} :
                          conn'[k].subs[h] = conn[k].subs[h]
          /\ Sends(k, "data:update")
             => \E g \in DOMAIN conn[k].subs :
                  /\ conn'[k].frame.val.tag = u64_to_string(g)
                  /\ conn[k].subs[g].rx.buf.some
                  /\ conn'[k].frame.val.value
                        = serialize_fields(conn[k].subs[g].fields,
                                           conn[k].subs[g].rx.buf.val)
                  /\ conn'[k].subs[g].rx.buf = None
                  /\ conn'[k].subs[g].fields = conn[k].subs[g].fields
                  /\ \A h \in DOMAIN conn[k].subs \ {g} :
                        conn'[k].subs[h] = conn[k].subs[h]
      ]_vars

\* the last update was sent under a list of three fields and the guid now
\* holds a subscription with another list
Wit_C25_ListReplaced ==
    \E k \in Conns, v \in VehicleIds :
        /\ conn[k].pc = "loop"
        /\ conn[k].frame.some
        /\ conn[k].frame.val.msg_type = "data:update"
        /\ conn[k].frame.val.tag = u64_to_string(Guid(v))
        /\ Len(conn[k].frame.val.value) = 4
        /\ Guid(v) \in DOMAIN conn[k].subs
        /\ conn[k].subs[Guid(v)].fields = <<"soc", "soc">>
        /\ conn[k].subs[Guid(v)].rx.buf.some

Cex_C27_LagOnlyMissesSamples ==
    [][\A k \in Conns :
          \A g \in DOMAIN conn[k].subs :
              (/\ conn[k].pc = "loop"
               /\ conn[k].subs[g].rx.lagged
               /\ ~conn[k].subs[g].rx.closed
               /\ conn'[k].pc = "loop"
               /\ conn'[k].frame # conn[k].frame)
              => /\ g \in DOMAIN conn'[k].subs
                 /\ conn'[k].frame.val.msg_type # "data:error"
      ]_vars

\* ------------------------------------------------------------------------
\* Properties of the codec of the streaming line
\* ------------------------------------------------------------------------
\* C28: the line of any sample under any list of fields, decoded by the
\* client with the same list, gives the guid and the time of the sample, the
\* fields of the list as the sample has them, and None for every other field.
Cex_C28_RoundTrip ==
    [][\A k \in Conns :
          Sends(k, "data:update")
          => \A g \in DOMAIN conn[k].subs :
                LET sample == conn[k].subs[g].rx.buf.val
                    fields == conn[k].subs[g].fields
                    out == deserialize_fields(g, join(conn'[k].frame.val.value, ","),
                                              fields)
                IN  /\ out.ok
                    /\ out.val.id = sample.id
                    /\ out.val.time = sample.time
                    /\ \A f \in StreamingFields :
                          out.val[f] = IF \E i \in 1..Len(fields) : fields[i] = f
                                       THEN sample[f] ELSE None
      ]_vars

\* C29 as the specification words it: in a data:update, the item at the place
\* of a recognised name in the list the client declared is the value of that
\* field.
Cex_C29_FullDeclaredList ==
    [][\A k \in Conns :
          Sends(k, "data:update")
          => \A g \in DOMAIN conn[k].subs, declared \in DeclaredLists :
                (/\ conn'[k].frame.val.tag = u64_to_string(g)
                 /\ conn[k].subs[g].fields = deserialize_field_names(declared))
                => \A i \in 1..Len(declared) :
                      declared[i] \in StreamingFields
                      => LET items == str_split(join(conn'[k].frame.val.value, ","), ",")
                             sample == conn[k].subs[g].rx.buf.val
                         IN  /\ Len(items) >= i + 1
                             /\ items[i + 1] = serialize_fields(<<declared[i]>>, sample)[2]
      ]_vars

\* C29: the value of a data:update is a line of 1 + k items, k the number of
\* recognised names in the list the client declared; the first item is the
\* time, item i + 1 is the value of the i-th recognised name, in the order of
\* the declared list; and a client that decodes the line with the recognised
\* names of its list gets every one of these fields as the sample has it.
Thm_C29_LineItems ==
    [][\A k \in Conns :
          Sends(k, "data:update")
          => \A g \in DOMAIN conn[k].subs, declared \in DeclaredLists :
                (/\ conn'[k].frame.val.tag = u64_to_string(g)
                 /\ conn[k].subs[g].fields = deserialize_field_names(declared))
                => LET line == join(conn'[k].frame.val.value, ",")
                       items == str_split(line, ",")
                       sample == conn[k].subs[g].rx.buf.val
                       fields == conn[k].subs[g].fields
                       known == {i \in 1..Len(declared) : declared[i] \in StreamingFields}
                       place(j) == CHOOSE i \in known :
                                      Cardinality({h \in known : h <= i}) = j
                       out == deserialize_fields(g, line, fields)
                   IN  /\ Len(items) = 1 + Cardinality(known)
                       /\ items[1] = u64_to_string(sample.time)
                       /\ \A j \in 1..Cardinality(known) :
                             /\ fields[j] = declared[place(j)]
                             /\ items[j + 1]
                                   = serialize_fields(<<declared[place(j)]>>, sample)[2]
                       /\ out.ok
                       /\ out.val.time = sample.time
                       /\ \A j \in 1..Len(fields) :
                             out.val[fields[j]] = sample[fields[j]]
      ]_vars

\* an update was sent under a list of four names of which three are fields:
\* the shift state is the fourth item of the line
Wit_C29_UnknownNameDropped ==
    \E k \in Conns, v \in VehicleIds :
        /\ conn[k].pc = "loop"
        /\ conn[k].frame.some
        /\ conn[k].frame.val.msg_type = "data:update"
        /\ Len(conn[k].frame.val.value) = 4
        /\ conn[k].frame.val.value[4] = <<"D">>
        /\ Guid(v) \in DOMAIN conn[k].subs
        /\ conn[k].subs[Guid(v)].fields = <<"speed", "soc", "shift_state">>

\* ------------------------------------------------------------------------
\* Properties of the lifetime of the tokens
\* ------------------------------------------------------------------------
\* C30 as the specification words it: the client renews an hour before the
\* expiry of its token, or at the epoch when that is before the epoch.
Cex_C30_RenewHourBeforeExpiry ==
    [][client' # client
       => client'.renew_at = IF client'.expires_at >= 3600
                             THEN client'.expires_at - 3600 ELSE 0]_vars

\* C30: a token minted at any time for any scope set carries, in the access
\* and in the refresh JWT, the expiry of the token in seconds, ten minutes
\* after the minting, and the scope set as given; so does the pair the client
\* holds after a refresh. The token the client builds from a response expires
\* expires_in after it is built and is renewed an hour before that, or when
\* it is built if that is later.
Thm_C30_TokenLifetime ==
    /\ [](\A scopes \in InitialScopes \cup {{}} :
            LET t == Token_new(Secret, scopes, utc)
            IN  /\ t.ok
                /\ t.val.expires_at = utc + 10 * 60
                /\ t.val.access_token.claims.exp = t.val.expires_at
                /\ t.val.refresh_token.claims.exp = t.val.expires_at
                /\ t.val.access_token.claims.scopes = scopes
                /\ t.val.refresh_token.claims.scopes = scopes)
    /\ [][client' # client
          => /\ \/ /\ client'.access_token.claims.exp = utc + 10 * 60
                   /\ client'.refresh_token.claims.exp = utc + 10 * 60
                   /\ client'.refresh_token.claims.scopes
                         = client'.access_token.claims.scopes
                   /\ client'.expires_at = utc + 10 * 60
                \/ /\ lastReq'.endpoint = "raw"
                   /\ lastReq'.at = utc
                   /\ client'.access_token = lastReq'.res.val.access_token
                   /\ client'.refresh_token = lastReq'.res.val.refresh_token
                   /\ client'.expires_at = utc + lastReq'.res.val.expires_in
             /\ client'.renew_at = IF client'.expires_at - 3600 >= utc
                                   THEN client'.expires_at - 3600 ELSE utc
       ]_vars

\* a token of ten minutes the client was answered with after the start: it is
\* renewed from the time it is built, not from an hour before its expiry
Wit_C30_ShortLifetime ==
    /\ client.renew_at > 0
    /\ client.expires_at = client.renew_at + 10 * 60
    /\ client.access_token.claims.exp = client.expires_at

\* ------------------------------------------------------------------------
\* Properties of the actor's loop: the broadcasts, the timers, the snapshot
\* ------------------------------------------------------------------------
\* C31: once a Subscribe has allocated the streaming broadcast it is never
\* freed: no later iteration of the actor (a tick, a deadline, a command, a
\* state change) drops the sender, so a receiver a connection holds stays
\* connected.
Cex_C31_SenderNeverFreed ==
    [][\A v \in VehicleIds :
          /\ maybe_s_tx[v] => maybe_s_tx'[v]
          /\ \A k \in Conns :
                (Guid(v) \in DOMAIN conn[k].subs /\ Guid(v) \in DOMAIN conn'[k].subs
                   /\ ~conn[k].subs[Guid(v)].rx.closed)
                => ~conn'[k].subs[Guid(v)].rx.closed
      ]_vars

\* the snapshot of a vehicle the server has simulated for a while: as it was
\* seeded, after a drive that left one percent (the state change to Idle
\* cleared speed, shift state and power), or after a charge to 96 percent
\* (the state change cleared the charging state and the current)
UsedData(v) ==
    LET d == get_vehicle_data(VehicleDefinition(v), utc)
    IN  {d,
         [d EXCEPT !.charge_state.battery_level = 1,
                   !.charge_state.battery_range = 2,
                   !.drive_state.speed = None,
                   !.drive_state.shift_state = None,
                   !.drive_state.power = None],
         [d EXCEPT !.charge_state.battery_level = 96,
                   !.charge_state.battery_range = 192,
                   !.charge_state.charging_state = "Disconnected",
                   !.charge_state.charge_amps = 0]}

\* the clocks are counted from the instant such a vehicle became Idle
InitUsed ==
    /\ InitClient
    /\ instant = 0
    /\ ss = [v \in VehicleIds |-> idle(0)]
    /\ data \in [VehicleIds -> UNION {UsedData(v) : v \in VehicleIds}]
    /\ \A v \in VehicleIds : data[v] \in UsedData(v)
    /\ maybe_s_tx = [v \in VehicleIds |-> FALSE]
    /\ inbox = [v \in VehicleIds |-> << >>]
    /\ watcher = [v \in VehicleIds |-> [pc |-> "start", sent_at |-> 0, rx |-> Receiver]]
    /\ descriptor = [v \in VehicleIds |-> VehicleDefinition(v)]
    /\ rest = [c \in RestCallers |-> NoCall]
    /\ conn = [k \in Conns |->
                 [pc |-> "new", req |-> NoRequest, reply |-> None, sent_at |-> 0,
                  subs |-> NoSubscriptions, frame |-> None, granted |-> {},
                  last |-> NoTimes,
                  attempt |-> None]]
    /\ lastIter = [v \in VehicleIds |-> NoIteration]

\* the one simulate request the vehicle gets: the first command its actor
\* serves, sent by a client that does not look at the response
Seed(v) ==
    /\ lastIter[v].branch = "none"
    /\ Len(inbox[v]) < InboxCapacity
    /\ \E state \in SimulationStateEnum :
          inbox' = [inbox EXCEPT ![v] =
                      Append(@, [cmd |-> "Simulate", arg |-> state, from |-> "owner"])]
    /\ UNCHANGED <<instant, ss, data, maybe_s_tx, watcher, descriptor, rest, conn,
                   lastIter, tokVars>>

\* a streaming connection asks for the samples of the vehicle and is gone
\* before the reply: the receiver in the reply is dropped on arrival
Subscribe(v) ==
    /\ Len(inbox[v]) < InboxCapacity
    /\ inbox' = [inbox EXCEPT ![v] =
                   Append(@, [cmd |-> "Subscribe", arg |-> "none", from |-> "gone"])]
    /\ UNCHANGED <<instant, ss, data, maybe_s_tx, watcher, descriptor, rest, conn,
                   lastIter, tokVars>>

\* the owner polls the vehicle: vehicle_data and wake_up requests
PollRequest(c) ==
    Request(c, {"vehicle_data", "wake_up"}, {OwnerToken}, VehicleIds, {"none"}, {None})

\* a vehicle that is put into a state once and from then on only polled and
\* subscribed to
NextTick ==
    \/ Advance
    \/ Actor
    \/ \E v \in VehicleIds : Seed(v) \/ Subscribe(v)
    \/ \E c \in RestCallers :
          PollRequest(c) \/ RestSend(c) \/ RestFinish(c) \/ RestReturn(c)

\* time passes; the actor's select! takes a branch that stays ready, a timer
\* as well as a command; a caller waiting for room in the inbox gets it
FairTick ==
    /\ SF_vars(Advance)
    /\ \A v \in VehicleIds :
          /\ WF_vars(Serve(v))
          /\ WF_vars(UpdateDrive(v))
          /\ WF_vars(UpdateCharge(v))
          /\ WF_vars(Sleep(v))
          /\ WF_vars(WakeUp(v))
    /\ \A c \in RestCallers : SF_vars(RestSend(c))

SpecTick == InitUsed /\ [][NextTick]_vars /\ FairTick

Cex_C33_SendOnlyOnChange ==
    [][\A v \in VehicleIds :
          ((\E cmd \in {"WakeUp", "GetVehicleData", "Subscribe", "Simulate"} :
                Served(v, cmd))
             /\ watcher[v].pc = "run"
             /\ SimulationStateEnum_from(ss'[v]) = SimulationStateEnum_from(ss[v]))
          => watcher'[v].rx = watcher[v].rx
      ]_vars

\* any command of the actor's inbox, from a caller that does not wait for the
\* reply
AnyCommand(v) ==
    /\ Len(inbox[v]) < InboxCapacity
    /\ \E m \in {[cmd |-> "Simulate", arg |-> state, from |-> "gone"] :
                    state \in SimulationStateEnum}
                 \cup {[cmd |-> c, arg |-> "none", from |-> "gone"] :
                          c \in {"WakeUp", "GetVehicleData", "Subscribe", "WatchState"}} :
          inbox' = [inbox EXCEPT ![v] = Append(@, m)]
    /\ UNCHANGED <<instant, ss, data, maybe_s_tx, watcher, descriptor, rest, conn,
                   lastIter, tokVars>>

\* a vehicle that has driven or charged before and is sent any command at any
\* time
NextUsed == Advance \/ Actor \/ \E v \in VehicleIds : AnyCommand(v)

SpecUsed == InitUsed /\ [][NextUsed]_vars

\* C34: an iteration that takes the vehicle out of Driving leaves the
\* snapshot's shift_state, speed and power null, and one that takes it out of
\* Charging leaves charging_state Disconnected and charge_amps 0; between
\* iterations shift_state is non-null only while Driving and charging_state
\* is Charging only while Charging.
Thm_C34_TransitionCleanup ==
    /\ [](\A v \in VehicleIds :
            /\ data[v].drive_state.shift_state.some => ss[v].tag = "Driving"
            /\ data[v].charge_state.charging_state = "Charging"
               => ss[v].tag = "Charging")
    /\ [][\A v \in VehicleIds :
            /\ (ss[v].tag = "Driving" /\ ss'[v].tag # "Driving")
               => /\ data'[v].drive_state.shift_state = None
                  /\ data'[v].drive_state.speed = None
                  /\ data'[v].drive_state.power = None
            /\ (ss[v].tag = "Charging" /\ ss'[v].tag # "Charging")
               => /\ data'[v].charge_state.charging_state = "Disconnected"
                  /\ data'[v].charge_state.charge_amps = 0
       ]_vars

\* the battery ran out on a drive that had published its shift state: the
\* tick that ended the drive left the vehicle Idle with the fields cleared
Wit_C34_ClearedAfterExhaustion ==
    \E v \in VehicleIds :
        /\ lastIter[v].branch = "drive"
        /\ ss[v].tag = "Idle"
        /\ data[v].charge_state.battery_level = 0
        /\ data[v].drive_state.shift_state = None
        /\ data[v].drive_state.speed = None

\* C35: between iterations the snapshot's state is offline when the vehicle
\* is Sleeping and online otherwise, and the snapshot a GetVehicleData is
\* answered with carries the online state of the state the command was
\* served in.
Thm_C35_SnapshotOnlineState ==
    /\ [](\A v \in VehicleIds :
            data[v].state = IF ss[v].tag = "Sleeping" THEN "offline" ELSE "online")
    /\ [][\A v \in VehicleIds :
            (Served(v, "GetVehicleData") /\ lastIter'[v].reply.val.ok)
            => /\ ss[v].tag # "Sleeping"
               /\ lastIter'[v].reply.val.val.state = "online"
       ]_vars

\* a vehicle that slept and woke at its deadline: the snapshot was offline in
\* between and the owner is answered with an online one
Wit_C35_OnlineAfterSleep ==
    \E v \in VehicleIds :
        /\ lastIter[v].branch = "GetVehicleData"
        /\ lastIter[v].simulated = "Sleeping"
        /\ lastIter[v].reply.some
        /\ lastIter[v].reply.val.ok
        /\ lastIter[v].reply.val.val.state = "online"
        /\ data[v].state = "online"

\* this step is a driving tick of v
DrivingTick(v) ==
    /\ ss[v].tag = "Driving"
    /\ instant >= ss[v].update_time
    /\ lastIter'[v].branch = "drive"
    /\ ss'[v] # ss[v]

\* the battery of a drive at an instant, in units of 1/10000000 percent: the
\* level at the drive's start less the distance covered since
Remaining(state, at) == state.battery_level * 10000000 - (at - state.time) * 268224

\* the vehicle is on a drive whose battery is empty by the last instant the
\* clock of the model reaches
EndsWithinHorizon(v) ==
    /\ ss[v].tag = "Driving"
    /\ ss[v].update_time <= Horizon
    /\ Remaining(ss[v].state, Horizon) <= 0

\* C36: a Driving vehicle that gets no Simulate stops once its battery is
\* empty (for drives that end within the horizon of the clock); the level a
\* driving tick writes is never above the one before; a tick that finds the
\* battery above 0 keeps the vehicle Driving and schedules the next tick; the
\* tick that finds it at 0 publishes a sample if there is a sender, and leaves
\* the vehicle Idle with no streaming sender.
Thm_C36_DriveEnds ==
    /\ \A v \in VehicleIds :
          EndsWithinHorizon(v)
          ~> (ss[v].tag = "Idle" /\ lastIter[v].branch = "drive"
                /\ data[v].charge_state.battery_level = 0)
    /\ [][\A v \in VehicleIds :
            /\ (ss[v].tag = "Driving" /\ ss'[v].tag # "Driving")
               => /\ DrivingTick(v)
                  /\ Remaining(ss[v].state, instant) <= 0
            /\ DrivingTick(v)
               => /\ data'[v].charge_state.battery_level
                        <= data[v].charge_state.battery_level
                  /\ data'[v].charge_state.battery_level \in 0..100
                  /\ lastIter'[v].published.some = maybe_s_tx[v]
                  /\ lastIter'[v].published.some
                     => lastIter'[v].published.val.soc
                           = Some(data'[v].charge_state.battery_level)
                  /\ IF Remaining(ss[v].state, instant) <= 0
                     THEN /\ ss'[v] = idle(instant)
                          /\ ~maybe_s_tx'[v]
                          /\ data'[v].charge_state.battery_level = 0
                     ELSE /\ ss'[v] = [ss[v] EXCEPT !.update_time = instant + 1]
                          /\ maybe_s_tx'[v] = maybe_s_tx[v]
       ]_vars

\* the battery ran out while a sender was allocated: the last tick published
\* an empty battery and the vehicle is Idle without a sender
Wit_C36_LastSample ==
    \E v \in VehicleIds :
        /\ ss[v].tag = "Idle"
        /\ lastIter[v].branch = "drive"
        /\ lastIter[v].published.some
        /\ lastIter[v].published.val.soc = Some(0)
        /\ ~maybe_s_tx[v]

\* this step is a charging tick of v
ChargingTick(v) ==
    /\ ss[v].tag = "Charging"
    /\ instant >= ss[v].update_time
    /\ lastIter'[v].branch = "charge"
    /\ ss'[v] # ss[v]

\* the battery of a charge at an instant, in sixths of a percent: the level
\* at the start of the charge and ten percent for every minute since
Charged(state, at) == state.battery_level * 6 + (at - state.time)

\* the vehicle is on a charge that is full by the last instant the clock of
\* the model reaches
FullWithinHorizon(v) ==
    /\ ss[v].tag = "Charging"
    /\ ss[v].update_time <= Horizon
    /\ Charged(ss[v].state, Horizon) >= 600

\* C37: a Charging vehicle that gets no Simulate reaches battery_level 100
\* and becomes Idle (for charges that end within the horizon of the clock);
\* battery_level is always within 0..100; a charging tick never writes a
\* level below the one before; a tick that does not finish the charge leaves
\* charging_state Charging and the next tick 10 s ahead, and the vehicle
\* leaves Charging without a Simulate only by the tick that finds it full.
Thm_C37_ChargeEnds ==
    /\ \A v \in VehicleIds :
          FullWithinHorizon(v)
          ~> (ss[v].tag = "Idle" /\ lastIter[v].branch = "charge"
                /\ data[v].charge_state.battery_level = 100)
    /\ [](\A v \in VehicleIds : data[v].charge_state.battery_level \in 0..100)
    /\ [][\A v \in VehicleIds :
            /\ (ss[v].tag = "Charging" /\ ss'[v].tag # "Charging")
               => /\ ChargingTick(v)
                  /\ Charged(ss[v].state, instant) >= 600
            /\ ChargingTick(v)
               => /\ data'[v].charge_state.battery_level
                        >= data[v].charge_state.battery_level
                  /\ IF Charged(ss[v].state, instant) >= 600
                     THEN /\ ss'[v] = idle(instant)
                          /\ data'[v].charge_state.battery_level = 100
                     ELSE /\ ss'[v] = [ss[v] EXCEPT !.update_time = instant + 10]
                          /\ data'[v].charge_state.charging_state = "Charging"
                          /\ data'[v].charge_state.battery_level
                                = Charged(ss[v].state, instant) \div 6
       ]_vars

\* a charge that is finished: the tick that found the battery full left the
\* vehicle Idle
Wit_C37_Full ==
    \E v \in VehicleIds :
        /\ ss[v].tag = "Idle"
        /\ lastIter[v].branch = "charge"
        /\ data[v].charge_state.battery_level = 100
        /\ data[v].charge_state.battery_range = 200

\* C38: a vehicle in IdleNoSleep changes its state only in an iteration that
\* serves a Simulate, and a vehicle Sleeping with no wake scheduled only in
\* one that serves a Simulate or a WakeUp, which schedules the wake 60 s
\* ahead and leaves it Sleeping; in these two states no timer branch is
\* taken, and neither the clock nor a GetVehicleData, a Subscribe or a
\* WatchState changes the state.
Thm_C38_NoTimerArmed ==
    [][\A v \in VehicleIds :
          LET unarmed == \/ ss[v].tag = "IdleNoSleep"
                         \/ ss[v].tag = "Sleeping" /\ ~ss[v].wake_up_time.some
          IN  /\ (unarmed /\ lastIter'[v] # lastIter[v])
                 => \E cmd \in {"WakeUp", "GetVehicleData", "Subscribe", "WatchState",
                                "Simulate"} : Served(v, cmd)
              /\ (unarmed /\ ss'[v] # ss[v])
                 => \/ Served(v, "Simulate")
                    \/ /\ Served(v, "WakeUp")
                       /\ ss[v].tag = "Sleeping"
                       /\ ss'[v] = [tag |-> "Sleeping",
                                    wake_up_time |-> Some(instant + 60)]
      ]_vars

\* a vehicle put into IdleNoSleep and polled a minute later: it is still in
\* that state
Wit_C38_StillIdleNoSleep ==
    \E v \in VehicleIds :
        /\ ss[v].tag = "IdleNoSleep"
        /\ instant >= 60
        /\ lastIter[v].branch = "GetVehicleData"
        /\ lastIter[v].simulated = "IdleNoSleep"

\* the owner's REST requests beside the owner's streaming connection: both
\* send commands to the actor of the same vehicle
NextServe ==
    \/ \E v \in VehicleIds : Serve(v)
    \/ \E c \in RestCallers :
          OwnerRequest(c) \/ RestSend(c) \/ RestFinish(c) \/ RestReturn(c)
    \/ \E k \in Conns :
          Connect(k) \/ OwnerMessage(k) \/ ConnSend(k) \/ ConnFinish(k) \/ ConnData(k)

SpecServe == Init /\ [][NextServe]_vars

\* this step is the actor of v taking a command from its inbox
Dequeues(v) == inbox[v] # << >> /\ Len(inbox'[v]) < Len(inbox[v])

\* whether a command is answered Ok in the state the actor is in
Accepted(v, cmd) == cmd \in {"Simulate", "WatchState"} \/ ~is_asleep(ss[v])

Thm_C40_WakeDeadlineKept ==
    /\ \A v \in VehicleIds :
          (ss[v].tag = "Sleeping" /\ ss[v].wake_up_time.some
             /\ ss[v].wake_up_time.val <= Horizon)
          ~> (ss[v].tag = "Idle" /\ lastIter[v].branch = "wake")
    /\ [][\A v \in VehicleIds :
            (ss[v].tag = "Sleeping" /\ ss[v].wake_up_time.some)
            => /\ Served(v, "WakeUp")
                  => /\ lastIter'[v].reply = Some(Err("DeviceNotAvailable"))
                     /\ ss'[v] = ss[v]
               /\ (ss'[v] # ss[v] /\ ~Served(v, "Simulate"))
                  => /\ lastIter'[v].branch = "wake"
                     /\ instant >= ss[v].wake_up_time.val
                     /\ instant < ss[v].wake_up_time.val + TimeStep
                     /\ ss'[v] = idle(instant)
       ]_vars

\* a WakeUp served at the instant of the deadline an earlier one had set: the
\* deadline is where it was and the vehicle is about to wake
Wit_C40_WakeUpAtDeadline ==
    \E v \in VehicleIds :
        /\ ss[v].tag = "Sleeping"
        /\ ss[v].wake_up_time.some
        /\ ss[v].wake_up_time.val <= instant
        /\ lastIter[v].branch = "WakeUp"
        /\ lastIter[v].reply = Some(Err("DeviceNotAvailable"))

====
